---- MODULE Spec2Model ----
(***************************************************************************)
(* Verification model of the document ingestion router backend:            *)
(*   - ResourceAccessPolicy        (app/security/access_policy.py)         *)
(*   - DocumentIngestionRouter     (app/router/classifier.py)              *)
(*   - KnowledgeGraphBuilder       (app/graph/knowledge.py)                *)
(*   - TriSearchEngine             (app/search/trisearch.py)               *)
(*   - the /ingest, /documents, /search and /graph/query request handlers  *)
(*                                                                         *)
(* Specifications:                                                         *)
(*   SpecPolicy   the access policy applied to drawn (ctx, resource) pairs *)
(*   SpecClassify classify / ingest applied to drawn files                 *)
(*   Spec         request handlers run one after another on the stores     *)
(*   SpecGraph    build_from_chunks and graph queries one after another    *)
(*   SpecConc     build_from_chunks calls interleaved at their awaits      *)
(***************************************************************************)
EXTENDS Integers, Sequences, FiniteSets, TLC

VARIABLES
    polIn,        \* SpecPolicy: the drawn (ctx, resource, model) input
    polOut,       \* SpecPolicy: the result of the last policy call
    clsIn,        \* SpecClassify: the drawn file, arguments, router
                  \* configuration and engine behaviour
    clsOut,       \* SpecClassify: the result of the last router call
    settings,     \* deployment: is the embedding service configured, is the
                  \* spaCy model installed
    documents,    \* table documents, in insertion order
    chunks,       \* table chunks, in insertion order
    graph_nodes,  \* table graph_nodes, in insertion order
    graph_edges,  \* table graph_edges, in insertion order
    lastCall,     \* the last request handled and its response
    builds,       \* SpecConc: the build_from_chunks calls in progress
    fusIn,        \* SpecFusion: the drawn result lists, k and limit
    fusOut,       \* SpecFusion: the result of the last fusion
    wf            \* SpecIngestion: the IngestionWorkflow execution

polVars == <<polIn, polOut>>

clsVars == <<clsIn, clsOut>>

fusVars == <<fusIn, fusOut>>

storeVars == <<documents, chunks, graph_nodes, graph_edges>>

appVars == <<settings, documents, chunks, graph_nodes, graph_edges, lastCall,
             builds>>

vars == <<polIn, polOut, clsIn, clsOut, settings, documents, chunks,
          graph_nodes, graph_edges, lastCall, builds, fusIn, fusOut, wf>>

(***************************************************************************)
(* Generic helpers                                                         *)
(***************************************************************************)
\* Python None / SQL NULL
None == "None"

\* no call made yet
NoCall == [op |-> "none", status |-> 0]

(***************************************************************************)
(* Security context and resources                                          *)
(***************************************************************************)
Tenants == {"tA", "tB"}

UserIds == {"u1", "u2", "system"}

\* Role enum members used by the policy (developer and agent behave as
\* viewer in every policy rule)
Roles == {"admin", "analyst", "pm", "viewer"}

Groups == {"g1", "g2"}

ProjectIds == {None, "p1", "p2"}

\* the four recognised levels and one unrecognised value
AccessLevels == {"private", "team", "project", "tenant", "other"}

SecurityContext ==
    [user_id : UserIds, tenant_id : Tenants, project_id : ProjectIds,
     roles : SUBSET Roles, groups : SUBSET Groups]

Resource ==
    [tenant_id : Tenants, user_id : UserIds, access_level : AccessLevels,
     project_id : ProjectIds, acl_groups : SUBSET Groups]

\* ORM models handed to build_query_filter: which columns hasattr() finds
FullModel == [access_level |-> TRUE, user_id |-> TRUE,
              project_id |-> TRUE, acl_groups |-> TRUE]

TenantOnlyModel == [access_level |-> FALSE, user_id |-> FALSE,
                    project_id |-> FALSE, acl_groups |-> FALSE]

Models == {FullModel, TenantOnlyModel}

SYSTEM_RESOURCE_ROLES == {"admin", "analyst", "pm"}

(***************************************************************************)
(* ResourceAccessPolicy                                                    *)
(***************************************************************************)
can_access_system_resources(ctx) ==
    \E role \in ctx.roles : role \in SYSTEM_RESOURCE_ROLES

\* mutant: the admin override is tested before the tenant check
can_access_AdminFirst(ctx, res) ==
    IF "admin" \in ctx.roles THEN TRUE
    ELSE IF ctx.tenant_id # res.tenant_id THEN FALSE
    ELSE IF ctx.user_id = res.user_id THEN TRUE
    ELSE IF res.user_id = "system" THEN can_access_system_resources(ctx)
    ELSE IF res.access_level = "private" THEN FALSE
    ELSE IF res.access_level = "team"
         THEN IF res.acl_groups # {} THEN (ctx.groups \cap res.acl_groups) # {}
              ELSE FALSE
    ELSE IF res.access_level = "project"
         THEN /\ ctx.project_id # None
              /\ res.project_id # None
              /\ ctx.project_id = res.project_id
    ELSE IF res.access_level = "tenant" THEN TRUE
    ELSE FALSE

\* mutant: a resource owned by 'system' is handled by its access level
can_access_SystemByLevel(ctx, res) ==
    IF ctx.tenant_id # res.tenant_id THEN FALSE
    ELSE IF "admin" \in ctx.roles THEN TRUE
    ELSE IF ctx.user_id = res.user_id THEN TRUE
    ELSE IF res.access_level = "private" THEN FALSE
    ELSE IF res.access_level = "team"
         THEN IF res.acl_groups # {} THEN (ctx.groups \cap res.acl_groups) # {}
              ELSE FALSE
    ELSE IF res.access_level = "project"
         THEN /\ ctx.project_id # None
              /\ res.project_id # None
              /\ ctx.project_id = res.project_id
    ELSE IF res.access_level = "tenant" THEN TRUE
    ELSE FALSE

\* mutant: the project rule compares the project ids without testing for None
can_access_ProjectNoneMatches(ctx, res) ==
    IF ctx.tenant_id # res.tenant_id THEN FALSE
    ELSE IF "admin" \in ctx.roles THEN TRUE
    ELSE IF ctx.user_id = res.user_id THEN TRUE
    ELSE IF res.user_id = "system" THEN can_access_system_resources(ctx)
    ELSE IF res.access_level = "private" THEN FALSE
    ELSE IF res.access_level = "team"
         THEN IF res.acl_groups # {} THEN (ctx.groups \cap res.acl_groups) # {}
              ELSE FALSE
    ELSE IF res.access_level = "project"
         THEN ctx.project_id = res.project_id
    ELSE IF res.access_level = "tenant" THEN TRUE
    ELSE FALSE

can_access(ctx, res) ==
    IF ctx.tenant_id # res.tenant_id THEN FALSE
    ELSE IF "admin" \in ctx.roles THEN TRUE
    ELSE IF ctx.user_id = res.user_id THEN TRUE
    ELSE IF res.user_id = "system" THEN can_access_system_resources(ctx)
    ELSE IF res.access_level = "private" THEN FALSE
    ELSE IF res.access_level = "team"
         THEN IF res.acl_groups # {} THEN (ctx.groups \cap res.acl_groups) # {}
              ELSE FALSE
    ELSE IF res.access_level = "project"
         THEN /\ ctx.project_id # None
              /\ res.project_id # None
              /\ ctx.project_id = res.project_id
    ELSE IF res.access_level = "tenant" THEN TRUE
    ELSE FALSE

\* The WHERE clause build_query_filter adds to the query: the mandatory tenant
\* conjunct, and for a non-admin ctx on a model with access columns the set of
\* OR-ed conditions (restricted = TRUE); each condition is named by its kind.
build_query_filter(ctx, model) ==
    IF "admin" \in ctx.roles
    THEN [tenant_id |-> ctx.tenant_id, restricted |-> FALSE, conditions |-> {}]
    ELSE IF model.access_level /\ model.user_id
    THEN [tenant_id |-> ctx.tenant_id, restricted |-> TRUE,
          conditions |->
              {"owner", "tenant_level"}
              \cup (IF can_access_system_resources(ctx) THEN {"system"} ELSE {})
              \cup (IF ctx.project_id # None /\ model.project_id
                    THEN {"project"} ELSE {})
              \cup (IF ctx.groups # {} /\ model.acl_groups
                    THEN {"team"} ELSE {})]
    ELSE [tenant_id |-> ctx.tenant_id, restricted |-> FALSE, conditions |-> {}]

\* SQL evaluation of one OR-ed condition of the filter on a row
ConditionHolds(cond, ctx, row) ==
    CASE cond = "owner"        -> row.user_id = ctx.user_id
      [] cond = "tenant_level" -> row.access_level = "tenant"
      [] cond = "system"       -> row.user_id = "system"
      [] cond = "project"      -> /\ row.access_level = "project"
                                  /\ row.project_id # None
                                  /\ row.project_id = ctx.project_id
      [] cond = "team"         -> /\ row.access_level = "team"
                                  /\ (row.acl_groups \cap ctx.groups) # {}
      [] OTHER                 -> FALSE

\* does the filtered query return the row
RowAdmitted(filter, ctx, row) ==
    /\ row.tenant_id = filter.tenant_id
    /\ (filter.restricted =>
            \E cond \in filter.conditions : ConditionHolds(cond, ctx, row))

\* Post-query filter over resource dicts, in input order. A key the dict
\* lacks is None in the model: resource.get gives "" for a missing tenant_id
\* (a legacy resource) and "team" for a missing access_level.
filter_accessible_resources(ctx, resources) ==
    LET Accessible(resource) ==
            IF resource.tenant_id = None
            THEN \/ resource.user_id = ctx.user_id
                 \/ resource.user_id = "system"
            ELSE can_access(ctx,
                    [resource EXCEPT !.access_level =
                        IF @ = None THEN "team" ELSE @])
    IN  SelectSeq(resources, Accessible)

(***************************************************************************)
(* DocumentIngestionRouter: files, classification                          *)
(***************************************************************************)
\* longest file name stem, in words
MaxWords == 2

\* most chunks one extraction returns
MaxChunks == 2

\* A file name is a stem of words joined by '-' and a suffix (Path.suffix,
\* "" when the name has no dot).
Vocabulary == {"notes", "Manual", "comparison", "ssn", "draft"}

CLASS_A_EXTENSIONS == {".pdf", ".scidoc"}

CLASS_B_EXTENSIONS ==
    {".pptx", ".docx", ".doc", ".eml", ".msg", ".html", ".md", ".txt"}

CLASS_C_EXTENSIONS == {".csv", ".parquet", ".json", ".log", ".jsonl", ".xlsx"}

\* suffixes as written in the name: known ones, an upper-case one, an unknown
\* one and none
Suffixes ==
    {".pdf", ".PDF", ".scidoc", ".docx", ".md", ".txt", ".csv", ".json",
     ".xlsx", ".xyz", ""}

TRUTH_KEYWORDS ==
    {"manual", "spec", "specification", "standard", "iso", "safety",
     "protocol", "procedure", "guideline", "regulation", "compliance",
     "datasheet", "technical", "engineering", "reference", "nist",
     "fedramp", "stig", "cve", "policy"}

HIGH_SENSITIVITY_KEYWORDS ==
    {"secret", "credential", "password", "ssn", "pii", "phi", "cui"}

MODERATE_SENSITIVITY_KEYWORDS ==
    {"proprietary", "internal", "confidential", "draft"}

DataClasses == {"immutable_truth", "ephemeral_stream", "operational_pulse"}

\* str.lower() on the words and suffixes of the model
Lower(w) ==
    CASE w = "Manual" -> "manual"
      [] w = ".PDF"   -> ".pdf"
      [] OTHER        -> w

\* the keywords that occur as substrings of a lower-case word
KeywordsIn(w) ==
    CASE w = "manual"     -> {"manual"}
      [] w = "comparison" -> {"iso"}
      [] w = "ssn"        -> {"ssn"}
      [] w = "draft"      -> {"draft"}
      [] OTHER            -> {}

Files ==
    [words : UNION {[1..n -> Vocabulary] : n \in 1..MaxWords},
     ext : Suffixes]

\* `kw in filename_lower`
Contains(file, kw) ==
    \E i \in 1..Len(file.words) : kw \in KeywordsIn(Lower(file.words[i]))

\* DECAY_RATES, in hundredths
DECAY_RATES ==
    [immutable_truth |-> 1, ephemeral_stream |-> 50, operational_pulse |-> 90]

\* DECAY_RATES.get(data_class, 0.5)
DecayRateOf(data_class) ==
    IF data_class \in DOMAIN DECAY_RATES THEN DECAY_RATES[data_class] ELSE 50

_is_technical_document(file) ==
    \E kw \in TRUTH_KEYWORDS : Contains(file, kw)

\* mutant: a technical keyword upgrades every file not of the truth set
_classify_by_extension_KeywordFirst(ext, file) ==
    IF ext \in CLASS_A_EXTENSIONS THEN "immutable_truth"
    ELSE IF _is_technical_document(file) THEN "immutable_truth"
    ELSE IF ext \in CLASS_C_EXTENSIONS THEN "operational_pulse"
    ELSE "ephemeral_stream"

_classify_by_extension(ext, file) ==
    IF ext \in CLASS_A_EXTENSIONS THEN "immutable_truth"
    ELSE IF ext \in CLASS_C_EXTENSIONS THEN "operational_pulse"
    ELSE IF ext \in CLASS_B_EXTENSIONS
         THEN IF _is_technical_document(file) THEN "immutable_truth"
              ELSE "ephemeral_stream"
    ELSE "ephemeral_stream"

_classify_sensitivity(file) ==
    IF \E kw \in HIGH_SENSITIVITY_KEYWORDS : Contains(file, kw) THEN "high"
    ELSE IF \E kw \in MODERATE_SENSITIVITY_KEYWORDS : Contains(file, kw)
         THEN "moderate"
    ELSE "low"

_detect_categories(file) ==
    LET cats ==
            (IF Contains(file, "pii") \/ Contains(file, "ssn")
             THEN <<"pii">> ELSE <<>>)
            \o (IF Contains(file, "phi") \/ Contains(file, "hipaa")
                THEN <<"phi">> ELSE <<>>)
            \o (IF Contains(file, "cui") THEN <<"cui">> ELSE <<>>)
            \o (IF Contains(file, "safety") THEN <<"safety">> ELSE <<>>)
            \o (IF Contains(file, "proprietary")
                THEN <<"proprietary">> ELSE <<>>)
    IN  IF cats = <<>> THEN <<"internal">> ELSE cats

_detect_frameworks(file) ==
    (IF Contains(file, "nist") THEN <<"NIST AI RMF">> ELSE <<>>)
    \o (IF Contains(file, "fedramp") THEN <<"FedRAMP">> ELSE <<>>)
    \o (IF Contains(file, "iso") THEN <<"ISO 27001">> ELSE <<>>)
    \o (IF Contains(file, "hipaa") THEN <<"HIPAA">> ELSE <<>>)

\* mutant: the decay rate of the default class is used for every class
classify_DefaultDecay(file) ==
    LET data_class == _classify_by_extension(Lower(file.ext), file)
        sensitivity == _classify_sensitivity(file)
    IN  [data_class |-> data_class,
         forced |-> FALSE,
         sensitivity_level |-> sensitivity,
         data_categories |-> _detect_categories(file),
         decay_rate |-> 50,
         requires_encryption |-> (sensitivity = "high"),
         compliance_frameworks |-> _detect_frameworks(file),
         confidence |-> IF data_class = "immutable_truth" THEN 85 ELSE 70]

\* ClassificationResult; decay_rate and confidence in hundredths; forced stands
\* for the reason text "Forced classification override"
classify(file) ==
    LET data_class == _classify_by_extension(Lower(file.ext), file)
        sensitivity == _classify_sensitivity(file)
    IN  [data_class |-> data_class,
         forced |-> FALSE,
         sensitivity_level |-> sensitivity,
         data_categories |-> _detect_categories(file),
         decay_rate |-> DecayRateOf(data_class),
         requires_encryption |-> (sensitivity = "high"),
         compliance_frameworks |-> _detect_frameworks(file),
         confidence |-> IF data_class = "immutable_truth" THEN 85 ELSE 70]

(***************************************************************************)
(* DocumentIngestionRouter: engines and ingest                             *)
(***************************************************************************)
\* router configuration: the constructor arguments and DOCLING_ENABLED
RouterConfigs ==
    [fallback_to_unstructured : BOOLEAN, docling_arg : BOOLEAN,
     docling_env : BOOLEAN]

\* self.docling_enabled as the constructor computes it
docling_enabled(cfg) == cfg.docling_arg \/ cfg.docling_env

\* engine.extract raised
Raises == -1

\* what engine.extract does in one call: raise, or return n chunks
ExtractOutcomes == {Raises} \cup (0..MaxChunks)

\* Chunk objects as an engine returns them: text, and default ChunkMetadata
ExtractedChunk(engine, i) ==
    [text |-> i, engine |-> engine,
     metadata |-> [provenance_id |-> <<>>, data_class |-> "",
                   ingested_at |-> 0, decay_rate |-> 50,
                   sensitivity_level |-> None, data_categories |-> <<>>,
                   compliance_frameworks |-> <<>>,
                   user_id |-> None, tenant_id |-> None,
                   project_id |-> None, access_level |-> "team",
                   acl_groups |-> {}]]

ExtractedChunks(engine, n) == [i \in 1..n |-> ExtractedChunk(engine, i)]

\* mutant: the except branch falls back whatever the data class
_execute_engine_FallbackAnyClass(cfg, data_class, primary, fallback) ==
    LET disabled == data_class = "immutable_truth" /\ ~docling_enabled(cfg)
        engine == IF disabled /\ cfg.fallback_to_unstructured
                  THEN "ephemeral_stream" ELSE data_class
    IN  IF disabled /\ ~cfg.fallback_to_unstructured
        THEN [status |-> "error", error |-> "RuntimeError", chunks |-> <<>>,
              ran |-> <<>>]
        ELSE IF primary # Raises
        THEN [status |-> "ok", error |-> None,
              chunks |-> ExtractedChunks(engine, primary),
              ran |-> <<engine>>]
        ELSE IF cfg.fallback_to_unstructured
        THEN IF fallback # Raises
             THEN [status |-> "ok", error |-> None,
                   chunks |-> ExtractedChunks("ephemeral_stream", fallback),
                   ran |-> <<engine, "ephemeral_stream">>]
             ELSE [status |-> "error", error |-> "ExtractionError",
                   chunks |-> <<>>, ran |-> <<engine, "ephemeral_stream">>]
        ELSE [status |-> "error", error |-> "ExtractionError", chunks |-> <<>>,
              ran |-> <<engine>>]

\* _execute_engine: the engine keyed by the data class, the disabled-docling
\* switch, and the fallback after an exception. primary / fallback are the
\* outcomes of the extract call on the engine first selected and on the
\* ephemeral-stream engine called from the except branch; ran lists the
\* engines whose extract was called, in call order.
_execute_engine(cfg, data_class, primary, fallback) ==
    LET disabled == data_class = "immutable_truth" /\ ~docling_enabled(cfg)
        engine == IF disabled /\ cfg.fallback_to_unstructured
                  THEN "ephemeral_stream" ELSE data_class
    IN  IF disabled /\ ~cfg.fallback_to_unstructured
        THEN [status |-> "error", error |-> "RuntimeError", chunks |-> <<>>,
              ran |-> <<>>]
        ELSE IF primary # Raises
        THEN [status |-> "ok", error |-> None,
              chunks |-> ExtractedChunks(engine, primary),
              ran |-> <<engine>>]
        ELSE IF data_class = "immutable_truth" /\ cfg.fallback_to_unstructured
        THEN IF fallback # Raises
             THEN [status |-> "ok", error |-> None,
                   chunks |-> ExtractedChunks("ephemeral_stream", fallback),
                   ran |-> <<engine, "ephemeral_stream">>]
             ELSE [status |-> "error", error |-> "ExtractionError",
                   chunks |-> <<>>, ran |-> <<engine, "ephemeral_stream">>]
        ELSE [status |-> "error", error |-> "ExtractionError", chunks |-> <<>>,
              ran |-> <<engine>>]

uuid4_hex == {"7f3a9c12", "c41d0b5e"}

\* first character of the data class value
Initial(data_class) ==
    CASE data_class = "immutable_truth"   -> "i"
      [] data_class = "ephemeral_stream"  -> "e"
      [] data_class = "operational_pulse" -> "o"

\* ingest(file_path, force_class, user_id, tenant_id, acl_groups) with the
\* drawn uuid and clock value: (chunks, classification) or the exception
ingest(cfg, file, force_class, user_id, tenant_id, acl_groups, primary, fallback, uuid, now) ==
    LET c0 == classify(file)
        classification ==
            IF force_class # None
            THEN [c0 EXCEPT !.data_class = force_class, !.forced = TRUE]
            ELSE c0
        provenance_id == <<Initial(classification.data_class), uuid>>
        ex == _execute_engine(cfg, classification.data_class, primary, fallback)
        Enrich(chunk) ==
            [chunk EXCEPT
                !.metadata.provenance_id = provenance_id,
                !.metadata.data_class = classification.data_class,
                !.metadata.ingested_at = now,
                !.metadata.decay_rate = classification.decay_rate,
                !.metadata.sensitivity_level = classification.sensitivity_level,
                !.metadata.data_categories = classification.data_categories,
                !.metadata.user_id = user_id,
                !.metadata.tenant_id = tenant_id,
                !.metadata.acl_groups = acl_groups,
                !.metadata.compliance_frameworks =
                    classification.compliance_frameworks]
    IN  IF ex.status = "error"
        THEN [status |-> "error", error |-> ex.error, chunks |-> <<>>,
              classification |-> classification, ran |-> ex.ran]
        ELSE [status |-> "ok", error |-> None,
              chunks |-> [i \in 1..Len(ex.chunks) |-> Enrich(ex.chunks[i])],
              classification |-> classification, ran |-> ex.ran]

(***************************************************************************)
(* Sequence helpers                                                        *)
(***************************************************************************)
Range(seq) == {seq[i] : i \in 1..Len(seq)}

Min(a, b) == IF a < b THEN a ELSE b

\* the first n elements (SQL LIMIT n, Python seq[:n])
Take(seq, n) == SubSeq(seq, 1, Min(n, Len(seq)))

\* a set of integers as an ascending sequence
Ascending(S) ==
    [i \in 1..Cardinality(S) |->
        CHOOSE x \in S : Cardinality({y \in S : y < x}) = i - 1]

\* the indexes of seq that satisfy Test, as an ascending sequence (the rows a
\* scan in insertion order returns)
IndexesWhere(seq, Test(_)) == Ascending({i \in 1..Len(seq) : Test(seq[i])})

\* stable sort of seq by descending key (ORDER BY key DESC over a scan in
\* insertion order; Python sorted(key = -key))
SortDesc(seq, Key(_)) ==
    LET n == Len(seq)
        Pos(p) == 1 + Cardinality({q \in 1..n :
                        \/ Key(seq[q]) > Key(seq[p])
                        \/ (Key(seq[q]) = Key(seq[p]) /\ q < p)})
    IN  [i \in 1..n |-> seq[CHOOSE p \in 1..n : Pos(p) = i]]

\* the distinct elements of seq in first-occurrence order
RECURSIVE Distinct(_)
Distinct(seq) ==
    IF seq = <<>> THEN <<>>
    ELSE LET front == Distinct(SubSeq(seq, 1, Len(seq) - 1))
             last == seq[Len(seq)]
         IN  IF last \in Range(front) THEN front ELSE Append(front, last)

RECURSIVE Flatten(_)
Flatten(seqs) ==
    IF seqs = <<>> THEN <<>> ELSE Head(seqs) \o Flatten(Tail(seqs))

(***************************************************************************)
(* Entity mentions and label comparison                                    *)
(***************************************************************************)
\* the entity spans the NER collaborator reports: text and label
Mention(text, label) == [text |-> text, label |-> label]

\* len(ent.text)
TextLen(text) ==
    CASE text = "AI"    -> 2
      [] text = "Beta " -> 5
      [] text \in {"Acme Inc", "Acme Ltd", "Acme Plc", "Acme Llc", "Acme Oyj"} -> 8
      [] OTHER          -> 4

\* str.lower() / SQL lower() on entity texts and queries
LowerText(text) ==
    CASE text = "Acme"  -> "acme"
      [] text = "ACME"  -> "acme"
      [] text = "Beta"  -> "beta"
      [] text = "Beta " -> "beta "
      [] text = "AI"    -> "ai"
      [] text = "Acme Inc" -> "acme inc"
      [] text = "Acme Ltd" -> "acme ltd"
      [] text = "Acme Plc" -> "acme plc"
      [] text = "Acme Llc" -> "acme llc"
      [] text = "Acme Oyj" -> "acme oyj"
      [] OTHER          -> text

\* str.strip()
Strip(text) ==
    CASE text = "Beta " -> "Beta"
      [] text = "beta " -> "beta"
      [] OTHER          -> text

\* show_trgm(text): the trigrams of the lower-cased alphanumeric words of the
\* text, each word padded with two blanks in front and one behind
Trigrams(text) ==
    CASE text \in {"Acme", "ACME", "acme"} ->
            {"  a", " ac", "acm", "cme", "me "}
      [] text \in {"Beta", "Beta ", "beta"} ->
            {"  b", " be", "bet", "eta", "ta "}
      [] text \in {"AI", "ai"} ->
            {"  a", " ai", "ai "}
      [] text = "Acme Inc" ->
            {"  a", " ac", "acm", "cme", "me ", "  i", " in", "inc", "nc "}
      [] text = "Acme Ltd" ->
            {"  a", " ac", "acm", "cme", "me ", "  l", " lt", "ltd", "td "}
      [] text = "Acme Plc" ->
            {"  a", " ac", "acm", "cme", "me ", "  p", " pl", "plc", "lc "}
      [] text = "Acme Llc" ->
            {"  a", " ac", "acm", "cme", "me ", "  l", " ll", "llc", "lc "}
      [] text = "Acme Oyj" ->
            {"  a", " ac", "acm", "cme", "me ", "  o", " oy", "oyj", "yj "}
      [] OTHER -> {text}

\* pg_trgm similarity(label, query) in hundredths: shared trigrams over all
\* trigrams; case and surrounding blanks do not count
similarity(label, query) ==
    (100 * Cardinality(Trigrams(label) \cap Trigrams(query)))
        \div Cardinality(Trigrams(label) \cup Trigrams(query))

SIMILARITY_THRESHOLD == 30

(***************************************************************************)
(* KnowledgeGraphBuilder: build_from_chunks                                *)
(***************************************************************************)
\* the entities of one chunk: doc.ents with len(ent.text) > 2
ChunkEntities(text) ==
    LET Keep(ent) == TextLen(ent.text) > 2
    IN  SelectSeq(text, Keep)

\* all_entities: the entities of all chunks of the call, in order
AllEntities(texts) ==
    Flatten([i \in 1..Len(texts) |-> ChunkEntities(texts[i])])

\* mutant: the key is the entity text as it is
EntityKey_Exact(ent) == ent.text

\* key = ent["text"].lower().strip()
EntityKey(ent) == Strip(LowerText(ent.text))

\* unique_entities in dict order: the first entity seen for every key
RECURSIVE UniqueEntities(_)
UniqueEntities(ents) ==
    IF ents = <<>> THEN <<>>
    ELSE LET front == UniqueEntities(SubSeq(ents, 1, Len(ents) - 1))
             last == ents[Len(ents)]
         IN  IF \E i \in 1..Len(front) : EntityKey(front[i]) = EntityKey(last)
             THEN front ELSE Append(front, last)

\* mutant: the lookup compares labels exactly (no lower())
NodeMatches_CaseSensitive(nodes, label, entity_type) ==
    LET Hit(n) == n.label = label /\ n.entity_type = entity_type
    IN  IndexesWhere(nodes, Hit)

\* the rows of the check query of _upsert_node, as indexes into graph_nodes:
\* WHERE lower(label) = lower(:label) AND entity_type = :entity_type
NodeMatches(nodes, label, entity_type) ==
    LET Hit(n) == /\ LowerText(n.label) = LowerText(label)
                  /\ n.entity_type = entity_type
    IN  IndexesWhere(nodes, Hit)

\* the rows of the check query of _upsert_edge
EdgeMatches(edges, source_id, target_id, relationship) ==
    LET Hit(e) == /\ e.source_id = source_id
                  /\ e.target_id = target_id
                  /\ e.relationship = relationship
    IN  IndexesWhere(edges, Hit)

\* a fresh uuid for a row of a table whose rows are never deleted
FreshId(table) == Len(table) + 1

\* None where an id is expected (ids are positive)
NoId == 0

NewNode(id, label, entity_type, document_id, tenant_id) ==
    [id |-> id, label |-> label, entity_type |-> entity_type,
     document_ids |-> <<document_id>>, tenant_id |-> tenant_id]

NewEdge(id, source_id, target_id, relationship, tenant_id) ==
    [id |-> id, source_id |-> source_id, target_id |-> target_id,
     relationship |-> relationship, weight |-> 1, tenant_id |-> tenant_id]

\* mutant: the update overwrites the document list
AppendDocument_Overwrites(nodes, i, document_id) ==
    [nodes EXCEPT ![i].document_ids = <<document_id>>]

\* UPDATE graph_nodes SET document_ids = array_append(...) WHERE id = :id
AppendDocument(nodes, i, document_id) ==
    [nodes EXCEPT ![i].document_ids = Append(@, document_id)]

\* UPDATE graph_edges SET weight = weight + 1 WHERE id = :id
IncrementWeight(edges, i) == [edges EXCEPT ![i].weight = @ + 1]

\* _upsert_node run without interruption; LIMIT 1 takes the first match
_upsert_node(nodes, label, entity_type, document_id, tenant_id) ==
    LET existing == NodeMatches(nodes, label, entity_type)
    IN  IF existing # <<>>
        THEN [nodes |-> AppendDocument(nodes, existing[1], document_id),
              id |-> nodes[existing[1]].id]
        ELSE [nodes |-> Append(nodes, NewNode(FreshId(nodes), label,
                                   entity_type, document_id, tenant_id)),
              id |-> FreshId(nodes)]

\* mutant: the edge is inserted without looking for an existing one
_upsert_edge_AlwaysInserts(edges, source_id, target_id, relationship, tenant_id) ==
    [edges |-> Append(edges, NewEdge(FreshId(edges), source_id, target_id,
                                     relationship, tenant_id)),
     id |-> FreshId(edges)]

\* _upsert_edge run without interruption; id is NoId when the edge existed
_upsert_edge(edges, source_id, target_id, relationship, tenant_id) ==
    LET existing == EdgeMatches(edges, source_id, target_id, relationship)
    IN  IF existing # <<>>
        THEN [edges |-> IncrementWeight(edges, existing[1]), id |-> NoId]
        ELSE [edges |-> Append(edges, NewEdge(FreshId(edges), source_id,
                                   target_id, relationship, tenant_id)),
              id |-> FreshId(edges)]

\* the node loop of build_from_chunks from entity i on; node_ids collects the
\* id of every entity's node in dict order
RECURSIVE UpsertNodes(_, _, _, _, _, _)
UpsertNodes(nodes, ents, i, node_ids, document_id, tenant_id) ==
    IF i > Len(ents) THEN [nodes |-> nodes, node_ids |-> node_ids]
    ELSE LET r == _upsert_node(nodes, ents[i].text, ents[i].label,
                               document_id, tenant_id)
         IN  UpsertNodes(r.nodes, ents, i + 1, Append(node_ids, r.id),
                         document_id, tenant_id)

\* the (i, j) pairs of the edge loop in execution order:
\* for i in range(n): for j in range(i + 1, min(i + 5, n))
EDGE_WINDOW == 5

\* mutant: every pair of entities is linked (no window)
RECURSIVE WindowPairs_AllPairs(_, _, _)
WindowPairs_AllPairs(n, i, j) ==
    IF i > n THEN <<>>
    ELSE IF j > n THEN WindowPairs_AllPairs(n, i + 1, i + 2)
    ELSE <<<<i, j>>>> \o WindowPairs_AllPairs(n, i, j + 1)

RECURSIVE WindowPairs(_, _, _)
WindowPairs(n, i, j) ==
    IF i > n THEN <<>>
    ELSE IF j > Min(i + EDGE_WINDOW - 1, n) THEN WindowPairs(n, i + 1, i + 2)
    ELSE <<<<i, j>>>> \o WindowPairs(n, i, j + 1)

\* the edge loop of build_from_chunks from pair p on
RECURSIVE UpsertEdges(_, _, _, _, _, _)
UpsertEdges(edges, pairs, p, node_ids, tenant_id, created) ==
    IF p > Len(pairs) THEN [edges |-> edges, created |-> created]
    ELSE LET r == _upsert_edge(edges, node_ids[pairs[p][1]],
                               node_ids[pairs[p][2]], "co_occurs", tenant_id)
         IN  UpsertEdges(r.edges, pairs, p + 1, node_ids, tenant_id,
                         IF r.id # NoId THEN created + 1 ELSE created)

\* mutant: the entities are upserted whatever _get_nlp returned
build_from_chunks_IgnoresNlp(nlp, nodes, edges, texts, document_id, tenant_id) ==
    LET ents == UniqueEntities(AllEntities(texts))
        n == UpsertNodes(nodes, ents, 1, <<>>, document_id, tenant_id)
        e == UpsertEdges(edges, WindowPairs(Len(ents), 1, 2), 1,
                         n.node_ids, tenant_id, 0)
    IN  [nodes |-> n.nodes, edges |-> e.edges,
         nodes_created |-> Len(ents), edges_created |-> e.created]

\* build_from_chunks run without interruption on the graph tables
build_from_chunks(nlp, nodes, edges, texts, document_id, tenant_id) ==
    IF ~nlp
    THEN [nodes |-> nodes, edges |-> edges,
          nodes_created |-> 0, edges_created |-> 0]
    ELSE LET ents == UniqueEntities(AllEntities(texts))
             n == UpsertNodes(nodes, ents, 1, <<>>, document_id, tenant_id)
             e == UpsertEdges(edges, WindowPairs(Len(ents), 1, 2), 1,
                              n.node_ids, tenant_id, 0)
         IN  [nodes |-> n.nodes, edges |-> e.edges,
              nodes_created |-> Len(ents), edges_created |-> e.created]


(***************************************************************************)
(* KnowledgeGraphBuilder: query                                            *)
(***************************************************************************)
\* seed nodes fetched at most
SEED_LIMIT == 5

\* Where SQL leaves the order of rows open (ties of an ORDER BY, a LIMIT
\* without ORDER BY) the rows come in insertion order, the order of a
\* sequential scan.

\* mutant: the seed query has no LIMIT
query_NoSeedLimit(nodes, edges, entity, depth, tenant_id, limit) ==
    LET IsSeed(n) == /\ similarity(n.label, entity) > SIMILARITY_THRESHOLD
                     /\ (tenant_id # None => n.tenant_id = tenant_id)
        Sim(i) == similarity(nodes[i].label, entity)
        start == SortDesc(IndexesWhere(nodes, IsSeed), Sim)
        node_ids == {nodes[start[i]].id : i \in 1..Len(start)}
        Touches(e) == e.source_id \in node_ids \/ e.target_id \in node_ids
        edge_rows == Take(IndexesWhere(edges, Touches), limit)
        connected_ids ==
            UNION {{edges[edge_rows[i]].source_id,
                    edges[edge_rows[i]].target_id} : i \in 1..Len(edge_rows)}
            \ node_ids
        IsConnected(n) == n.id \in connected_ids
        conn == IndexesWhere(nodes, IsConnected)
        Node(i) == [id |-> nodes[i].id, label |-> nodes[i].label,
                    entity_type |-> nodes[i].entity_type]
        Edge(i) == [id |-> edges[i].id, source_id |-> edges[i].source_id,
                    target_id |-> edges[i].target_id,
                    relationship |-> edges[i].relationship,
                    weight |-> edges[i].weight]
    IN  IF start = <<>> THEN [nodes |-> <<>>, edges |-> <<>>]
        ELSE [nodes |-> [i \in 1..Len(start) |-> Node(start[i])]
                        \o [i \in 1..Len(conn) |-> Node(conn[i])],
              edges |-> [i \in 1..Len(edge_rows) |-> Edge(edge_rows[i])]]

\* query(entity, depth, tenant_id, limit): seed nodes by similarity, the edges
\* touching them, the nodes at their far ends; depth is not read
query(nodes, edges, entity, depth, tenant_id, limit) ==
    LET IsSeed(n) == /\ similarity(n.label, entity) > SIMILARITY_THRESHOLD
                     /\ (tenant_id # None => n.tenant_id = tenant_id)
        Sim(i) == similarity(nodes[i].label, entity)
        start == Take(SortDesc(IndexesWhere(nodes, IsSeed), Sim), SEED_LIMIT)
        node_ids == {nodes[start[i]].id : i \in 1..Len(start)}
        Touches(e) == e.source_id \in node_ids \/ e.target_id \in node_ids
        edge_rows == Take(IndexesWhere(edges, Touches), limit)
        connected_ids ==
            UNION {{edges[edge_rows[i]].source_id,
                    edges[edge_rows[i]].target_id} : i \in 1..Len(edge_rows)}
            \ node_ids
        IsConnected(n) == n.id \in connected_ids
        conn == IndexesWhere(nodes, IsConnected)
        Node(i) == [id |-> nodes[i].id, label |-> nodes[i].label,
                    entity_type |-> nodes[i].entity_type]
        Edge(i) == [id |-> edges[i].id, source_id |-> edges[i].source_id,
                    target_id |-> edges[i].target_id,
                    relationship |-> edges[i].relationship,
                    weight |-> edges[i].weight]
    IN  IF start = <<>> THEN [nodes |-> <<>>, edges |-> <<>>]
        ELSE [nodes |-> [i \in 1..Len(start) |-> Node(start[i])]
                        \o [i \in 1..Len(conn) |-> Node(conn[i])],
              edges |-> [i \in 1..Len(edge_rows) |-> Edge(edge_rows[i])]]

(***************************************************************************)
(* TriSearchEngine                                                         *)
(***************************************************************************)
\* the RRF constant, the default of search
RRF_K == 60

\* largest limit a search request of the model passes
MaxLimit == 3

\* fused scores are kept as integers: 1/(k + rank) times RRFScale(k)
RECURSIVE ProductTo(_, _)
ProductTo(k, r) == IF r = 0 THEN 1 ELSE (k + r) * ProductTo(k, r - 1)

RRFScale(k) == ProductTo(k, MaxLimit)

\* number of mentions of the chunk text that match the query (ts_rank grows
\* with the number of matching lexemes; 0: the tsquery does not match)
KeywordHits(text, q) ==
    Cardinality({i \in 1..Len(text) :
                    Strip(LowerText(text[i].text)) = Strip(LowerText(q))})

\* filename of the document a chunk row joins to
FilenameOf(docs, document_id) ==
    LET d == CHOOSE d \in Range(docs) : d.id = document_id IN d.filename

HasDocument(docs, c) == \E d \in Range(docs) : d.id = c.document_id

SearchResult(docs, c, score, mode) ==
    [chunk_id |-> c.id, text |-> c.text, score |-> score,
     source_file |-> FilenameOf(docs, c.document_id),
     data_class |-> c.data_class, search_mode |-> mode]

\* how a modality's coroutine ends: it returns a result list, or the
\* exception of its db.execute leaves it. raises says whether the store
\* query of the modality fails in this call.
Returned(results) == [raised |-> FALSE, results |-> results]

Raised == [raised |-> TRUE, results |-> <<>>]

\* mutant: the tenant filter is left out of the keyword query
_keyword_search_NoTenant(docs, chks, q, tenant_id, limit, raises) ==
    LET Hit(c) == /\ HasDocument(docs, c)
                  /\ KeywordHits(c.text, q) > 0
        Score(i) == KeywordHits(chks[i].text, q)
        rows == Take(SortDesc(IndexesWhere(chks, Hit), Score), limit)
    IN  IF raises THEN Raised
        ELSE Returned([i \in 1..Len(rows) |->
            SearchResult(docs, chks[rows[i]], Score(rows[i]), "keyword")])

\* mutant: a failed keyword query is caught and gives an empty list
_keyword_search_Caught(docs, chks, q, tenant_id, limit, raises) ==
    LET Hit(c) == /\ HasDocument(docs, c)
                  /\ KeywordHits(c.text, q) > 0
                  /\ (tenant_id # None => c.tenant_id = tenant_id)
        Score(i) == KeywordHits(chks[i].text, q)
        rows == Take(SortDesc(IndexesWhere(chks, Hit), Score), limit)
    IN  IF raises THEN Returned(<<>>)
        ELSE Returned([i \in 1..Len(rows) |->
            SearchResult(docs, chks[rows[i]], Score(rows[i]), "keyword")])

\* no try around db.execute: a failed query raises out of the coroutine
_keyword_search(docs, chks, q, tenant_id, limit, raises) ==
    LET Hit(c) == /\ HasDocument(docs, c)
                  /\ KeywordHits(c.text, q) > 0
                  /\ (tenant_id # None => c.tenant_id = tenant_id)
        Score(i) == KeywordHits(chks[i].text, q)
        rows == Take(SortDesc(IndexesWhere(chks, Hit), Score), limit)
    IN  IF raises THEN Raised
        ELSE Returned([i \in 1..Len(rows) |->
            SearchResult(docs, chks[rows[i]], Score(rows[i]), "keyword")])

\* the embedding of a text: the set of its normalised words; cosine
\* similarity in hundredths is 100 for a shared word and 0 otherwise
Embed(text) == {Strip(LowerText(text[i].text)) : i \in 1..Len(text)}

Cosine(e1, e2) == IF e1 \cap e2 # {} THEN 100 ELSE 0

\* what _get_embedding returns when the service is not configured or fails
\* (None, which `not embedding` treats like an empty vector)
NoEmbedding == {}

\* mutant: the vector store is queried also without an embedding
_vector_search_AlwaysQueries(docs, chks, embedding, tenant_id, limit, raises) ==
    IF raises THEN Raised
    ELSE LET Hit(c) == /\ HasDocument(docs, c)
                       /\ c.embedded
                       /\ (tenant_id # None => c.tenant_id = tenant_id)
             Score(i) == Cosine(Embed(chks[i].text), embedding)
             rows == Take(SortDesc(IndexesWhere(chks, Hit), Score), limit)
         IN  Returned([i \in 1..Len(rows) |->
                 SearchResult(docs, chks[rows[i]], Score(rows[i]), "vector")])

\* returns [] before the query when there is no embedding; no try around
\* db.execute
_vector_search(docs, chks, embedding, tenant_id, limit, raises) ==
    IF embedding = NoEmbedding THEN Returned(<<>>)
    ELSE IF raises THEN Raised
    ELSE LET Hit(c) == /\ HasDocument(docs, c)
                       /\ c.embedded
                       /\ (tenant_id # None => c.tenant_id = tenant_id)
             Score(i) == Cosine(Embed(chks[i].text), embedding)
             rows == Take(SortDesc(IndexesWhere(chks, Hit), Score), limit)
         IN  Returned([i \in 1..Len(rows) |->
                 SearchResult(docs, chks[rows[i]], Score(rows[i]), "vector")])

MATCHED_NODE_LIMIT == 10

GRAPH_SCORE == 70

\* db.execute sits in a try: a failed query is logged and gives []
_graph_search(docs, chks, nodes, edges, q, tenant_id, limit, raises) ==
    LET IsMatch(n) == /\ similarity(n.label, q) > SIMILARITY_THRESHOLD
                      /\ (tenant_id # None => n.tenant_id = tenant_id)
        Sim(i) == similarity(nodes[i].label, q)
        matched == Take(SortDesc(IndexesWhere(nodes, IsMatch), Sim),
                        MATCHED_NODE_LIMIT)
        matched_ids == {nodes[matched[i]].id : i \in 1..Len(matched)}
        \* the node at the other end of an edge that touches a matched node
        neighbour_ids ==
            {IF e.source_id = m THEN e.target_id ELSE e.source_id :
                <<e, m>> \in {<<e2, m2>> \in Range(edges) \X matched_ids :
                                e2.source_id = m2 \/ e2.target_id = m2}}
        connected ==
            UNION {Range(n.document_ids) :
                    n \in {n2 \in Range(nodes) :
                            n2.id \in matched_ids \cup neighbour_ids}}
        Hit(c) == HasDocument(docs, c) /\ c.document_id \in connected
        rows == Take(IndexesWhere(chks, Hit), limit)
    IN  IF raises THEN Returned(<<>>)
        ELSE Returned([i \in 1..Len(rows) |->
            SearchResult(docs, chks[rows[i]], GRAPH_SCORE, "graph")])

\* the chunk ids of the result lists in the order of first encounter
FirstSeen(result_lists) ==
    LET all == Flatten(result_lists)
    IN  Distinct([i \in 1..Len(all) |-> all[i].chunk_id])

\* mutant: an item keeps only its best contribution instead of the sum
RRFScore_BestOnly(result_lists, k, chunk_id) ==
    LET Contribution(results) ==
            LET ranks == {r \in 1..Len(results) :
                            results[r].chunk_id = chunk_id}
            IN  IF ranks = {} THEN 0
                ELSE LET r == CHOOSE r \in ranks : TRUE
                     IN  RRFScale(k) \div (k + r)
        c == {Contribution(result_lists[1]), Contribution(result_lists[2]),
              Contribution(result_lists[3])}
    IN  CHOOSE x \in c : \A y \in c : y <= x

\* scores[chunk_id] after the two loops, times RRFScale(k)
RRFScore(result_lists, k, chunk_id) ==
    LET Contribution(results) ==
            LET ranks == {r \in 1..Len(results) :
                            results[r].chunk_id = chunk_id}
            IN  IF ranks = {} THEN 0
                ELSE LET r == CHOOSE r \in ranks : TRUE
                     IN  RRFScale(k) \div (k + r)
    IN  Contribution(result_lists[1]) + Contribution(result_lists[2])
        + Contribution(result_lists[3])

\* mutant: the fused list is left in first-seen order, not sorted by score
_reciprocal_rank_fusion_Unsorted(result_lists, k) ==
    LET all == Flatten(result_lists)
        ids == FirstSeen(result_lists)
        Score(id) == RRFScore(result_lists, k, id)
        Best(id) == all[CHOOSE i \in 1..Len(all) :
                        /\ all[i].chunk_id = id
                        /\ \A j \in 1..(i - 1) : all[j].chunk_id # id]
    IN  [i \in 1..Len(ids) |->
            [Best(ids[i]) EXCEPT !.score = Score(ids[i]),
                                 !.search_mode = "trisearch"]]

\* mutant: the fused list is sorted by ascending score
_reciprocal_rank_fusion_Ascending(result_lists, k) ==
    LET all == Flatten(result_lists)
        ids == FirstSeen(result_lists)
        Score(id) == RRFScore(result_lists, k, id)
        Neg(id) == 0 - Score(id)
        sorted == SortDesc(ids, Neg)
        Best(id) == all[CHOOSE i \in 1..Len(all) :
                        /\ all[i].chunk_id = id
                        /\ \A j \in 1..(i - 1) : all[j].chunk_id # id]
    IN  [i \in 1..Len(sorted) |->
            [Best(sorted[i]) EXCEPT !.score = Score(sorted[i]),
                                    !.search_mode = "trisearch"]]

_reciprocal_rank_fusion(result_lists, k) ==
    LET all == Flatten(result_lists)
        ids == FirstSeen(result_lists)
        Score(id) == RRFScore(result_lists, k, id)
        sorted == SortDesc(ids, Score)
        Best(id) == all[CHOOSE i \in 1..Len(all) :
                        /\ all[i].chunk_id = id
                        /\ \A j \in 1..(i - 1) : all[j].chunk_id # id]
    IN  [i \in 1..Len(sorted) |->
            [Best(sorted[i]) EXCEPT !.score = Score(sorted[i]),
                                    !.search_mode = "trisearch"]]

SearchModes == {"keyword", "vector", "graph", "trisearch"}

\* the modalities whose store query can fail
Modalities == {"keyword", "vector", "graph"}

\* search(query, mode, tenant_id, limit, k); embedding is what _get_embedding
\* returned for the query, failing the modality whose store query fails in
\* this call (None: no query fails). An exception that leaves a modality
\* leaves search: the later modalities and the fusion do not run.
search(docs, chks, nodes, edges, q, mode, tenant_id, limit, k, embedding, failing) ==
    LET kw == IF mode \in {"keyword", "trisearch"}
              THEN _keyword_search(docs, chks, q, tenant_id, limit,
                                   failing = "keyword")
              ELSE Returned(<<>>)
        vec == IF mode \in {"vector", "trisearch"}
               THEN _vector_search(docs, chks, embedding, tenant_id, limit,
                                   failing = "vector")
               ELSE Returned(<<>>)
        gr == IF mode \in {"graph", "trisearch"}
              THEN _graph_search(docs, chks, nodes, edges, q, tenant_id,
                                 limit, failing = "graph")
              ELSE Returned(<<>>)
        keyword_results == kw.results
        vector_results == vec.results
        graph_results == gr.results
        results ==
            IF mode = "trisearch"
            THEN Take(_reciprocal_rank_fusion(
                        <<keyword_results, vector_results, graph_results>>, k),
                      limit)
            ELSE IF mode = "keyword" THEN keyword_results
            ELSE IF mode = "vector" THEN vector_results
            ELSE graph_results
    IN  IF kw.raised \/ vec.raised \/ gr.raised
        THEN [status |-> "error", response |-> <<>>]
        ELSE [status |-> "ok",
              response |->
                [query |-> q, mode |-> mode, results |-> results,
                 total |-> Len(results),
                 keyword_count |-> Len(keyword_results),
                 vector_count |-> Len(vector_results),
                 graph_count |-> Len(graph_results)]]


(***************************************************************************)
(* Values of the variables a specification does not use                   *)
(***************************************************************************)
\* the value of polIn in the specifications that make no policy call
NoInput == [ctx |-> [user_id |-> "u1", tenant_id |-> "tA", project_id |-> None,
                     roles |-> {}, groups |-> {}],
            res |-> [tenant_id |-> "tA", user_id |-> "u1",
                     access_level |-> "team", project_id |-> None,
                     acl_groups |-> {}],
            model |-> FullModel]

InitPolicyVars ==
    /\ polIn = NoInput
    /\ polOut = NoCall

\* the value of clsIn in the specifications that make no router call
NoClassifyInput ==
    [file |-> [words |-> <<"notes">>, ext |-> ".txt"], force_class |-> None,
     cfg |-> [fallback_to_unstructured |-> TRUE, docling_arg |-> TRUE,
              docling_env |-> TRUE],
     primary |-> 0, fallback |-> 0, user_id |-> "u1", tenant_id |-> "tA",
     acl_groups |-> {}, now |-> 1]

InitClassifyVars ==
    /\ clsIn = NoClassifyInput
    /\ clsOut = NoCall

\* the value of fusIn in the specifications that make no fusion call
NoFusionInput == [result_lists |-> <<<<>>, <<>>, <<>>>>, k |-> RRF_K, limit |-> 1]

InitFusionVars ==
    /\ fusIn = NoFusionInput
    /\ fusOut = NoCall

(***************************************************************************)
(* SpecPolicy: the policy functions applied to drawn inputs                *)
(***************************************************************************)
\* the application state before any request
NoBuilds == <<>>

\* no workflow execution started
NoWorkflow == [status |-> "idle"]

InitWorkflowVars ==
    /\ wf = NoWorkflow

InitAppVars ==
    /\ settings = [embedding |-> FALSE, spacy |-> FALSE]
    /\ documents = <<>>
    /\ chunks = <<>>
    /\ graph_nodes = <<>>
    /\ graph_edges = <<>>
    /\ lastCall = NoCall
    /\ builds = NoBuilds

InitPolicy ==
    /\ polIn \in [ctx : SecurityContext, res : Resource, model : Models]
    /\ polOut = NoCall
    /\ InitClassifyVars
    /\ InitFusionVars
    /\ InitWorkflowVars
    /\ InitAppVars

CanAccessCall ==
    /\ polOut.op # "can_access"
    /\ polOut' = [op |-> "can_access",
                  result |-> can_access(polIn.ctx, polIn.res)]
    /\ UNCHANGED <<polIn, clsVars, fusVars, appVars, wf>>

BuildQueryFilterCall ==
    /\ polOut.op # "build_query_filter"
    /\ polOut' = [op |-> "build_query_filter",
                  result |-> RowAdmitted(
                      build_query_filter(polIn.ctx, polIn.model),
                      polIn.ctx, polIn.res)]
    /\ UNCHANGED <<polIn, clsVars, fusVars, appVars, wf>>

NextPolicy ==
    \/ CanAccessCall
    \/ BuildQueryFilterCall

SpecPolicy == InitPolicy /\ [][NextPolicy]_vars

(***************************************************************************)
(* C1: a resource of another tenant is never accessible, whatever the      *)
(* roles of ctx (admin included), the owner (ctx itself or 'system'        *)
(* included), the access level, the project and the ACL groups.            *)
(***************************************************************************)
C1_TenantMismatchDenied ==
    (polOut.op = "can_access" /\ polIn.ctx.tenant_id # polIn.res.tenant_id)
        => polOut.result = FALSE

\* an admin who owns the resource, in another tenant, has been denied
C1_Witness ==
    /\ polOut.op = "can_access"
    /\ polIn.ctx.tenant_id # polIn.res.tenant_id
    /\ "admin" \in polIn.ctx.roles
    /\ polIn.ctx.user_id = polIn.res.user_id
    /\ polIn.res.access_level = "tenant"
    /\ polOut.result = FALSE

(***************************************************************************)
(* C2: for every ctx and every row of a model that has the access columns, *)
(* the filter of build_query_filter admits the row iff can_access is true. *)
(***************************************************************************)
C2_FilterAgreesWithCanAccess ==
    (polOut.op = "build_query_filter" /\ polIn.model = FullModel)
        => (polOut.result = can_access(polIn.ctx, polIn.res))

(***************************************************************************)
(* C18: for a resource of ctx's own tenant can_access applies, in this     *)
(* order: an admin ctx is allowed whatever the owner and the access level; *)
(* otherwise the owner is allowed; otherwise a resource owned by 'system'  *)
(* is allowed exactly when ctx holds one of the system-resource roles      *)
(* admin, analyst, pm, whatever the access level.                          *)
(***************************************************************************)
C18_AdminOwnerSystemRules ==
    (polOut.op = "can_access" /\ polIn.ctx.tenant_id = polIn.res.tenant_id) =>
        IF "admin" \in polIn.ctx.roles THEN polOut.result = TRUE
        ELSE IF polIn.ctx.user_id = polIn.res.user_id THEN polOut.result = TRUE
        ELSE IF polIn.res.user_id = "system"
             THEN polOut.result =
                    (polIn.ctx.roles \cap {"admin", "analyst", "pm"} # {})
        ELSE TRUE

\* a pm who is not the owner has been allowed a private resource of 'system'
C18_Witness ==
    /\ polOut.op = "can_access"
    /\ polIn.ctx.tenant_id = polIn.res.tenant_id
    /\ polIn.ctx.roles = {"pm"}
    /\ polIn.ctx.user_id = "u1"
    /\ polIn.res.user_id = "system"
    /\ polIn.res.access_level = "private"
    /\ polOut.result = TRUE

(***************************************************************************)
(* C19: for a ctx of the resource's tenant that is neither admin nor the   *)
(* owner, and a resource not owned by 'system', can_access is decided by   *)
(* the access level alone: private is denied; team is allowed iff the      *)
(* groups of ctx and the ACL groups of the resource have a common element; *)
(* project is allowed iff ctx has a project id and it is the resource's;   *)
(* tenant is allowed; any other level is denied.                           *)
(***************************************************************************)
C19_AccessLevelRules ==
    (/\ polOut.op = "can_access"
     /\ polIn.ctx.tenant_id = polIn.res.tenant_id
     /\ "admin" \notin polIn.ctx.roles
     /\ polIn.ctx.user_id # polIn.res.user_id
     /\ polIn.res.user_id # "system") =>
        polOut.result =
            CASE polIn.res.access_level = "private" -> FALSE
              [] polIn.res.access_level = "team" ->
                    \E g \in polIn.ctx.groups : g \in polIn.res.acl_groups
              [] polIn.res.access_level = "project" ->
                    /\ polIn.ctx.project_id # None
                    /\ polIn.ctx.project_id = polIn.res.project_id
              [] polIn.res.access_level = "tenant" -> TRUE
              [] OTHER -> FALSE

\* a project resource whose project id is None has been denied to a ctx
\* without project id
C19_Witness ==
    /\ polOut.op = "can_access"
    /\ polIn.ctx.tenant_id = polIn.res.tenant_id
    /\ polIn.ctx.roles = {"analyst"}
    /\ polIn.ctx.user_id = "u1"
    /\ polIn.res.user_id = "u2"
    /\ polIn.res.access_level = "project"
    /\ polIn.ctx.project_id = None
    /\ polIn.res.project_id = None
    /\ polOut.result = FALSE

(***************************************************************************)
(* SpecFilter: filter_accessible_resources applied to drawn resource lists *)
(***************************************************************************)
\* longest resource list
MaxResources == 2

\* callers without project, with every set of roles
FilterContexts ==
    {c \in SecurityContext :
        c.project_id = None /\ c.groups \in {{}, {"g1"}}}

\* resource dicts: legacy ones (no tenant_id) owned by a user and by
\* 'system', and tagged ones of both tenants, one without access_level
FilterResources ==
    {[tenant_id |-> None, user_id |-> "u1", access_level |-> "tenant",
      project_id |-> None, acl_groups |-> {}],
     [tenant_id |-> None, user_id |-> "system", access_level |-> "tenant",
      project_id |-> None, acl_groups |-> {}],
     [tenant_id |-> "tA", user_id |-> "u2", access_level |-> "private",
      project_id |-> None, acl_groups |-> {}],
     [tenant_id |-> "tA", user_id |-> "u2", access_level |-> "tenant",
      project_id |-> None, acl_groups |-> {}],
     [tenant_id |-> "tB", user_id |-> "u2", access_level |-> "tenant",
      project_id |-> None, acl_groups |-> {}],
     [tenant_id |-> "tA", user_id |-> "system", access_level |-> "private",
      project_id |-> None, acl_groups |-> {}],
     [tenant_id |-> "tA", user_id |-> "u2", access_level |-> None,
      project_id |-> None, acl_groups |-> {"g1"}]}

ResourceLists ==
    UNION {[1..n -> FilterResources] : n \in 0..MaxResources}

InitFilter ==
    /\ polIn \in [ctx : FilterContexts, resources : ResourceLists]
    /\ polOut = NoCall
    /\ InitClassifyVars
    /\ InitFusionVars
    /\ InitWorkflowVars
    /\ InitAppVars

FilterCall ==
    /\ polOut.op = "none"
    /\ polOut' = [op |-> "filter_accessible_resources",
                  result |-> filter_accessible_resources(polIn.ctx,
                                                         polIn.resources)]
    /\ UNCHANGED <<polIn, clsVars, fusVars, appVars, wf>>

NextFilter == FilterCall

SpecFilter == InitFilter /\ [][NextFilter]_vars

(***************************************************************************)
(* C20: filter_accessible_resources returns, in input order, a selection   *)
(* of the resources in which a resource with a tenant tag is kept iff      *)
(* can_access allows it, and a resource without tenant tag is kept only if *)
(* ctx is its owner or ctx holds a system-resource role.                   *)
(***************************************************************************)
C20_FilterKeepsAccessibleAndLegacyOfOwner ==
    polOut.op = "filter_accessible_resources" =>
        \E K \in SUBSET (1..Len(polIn.resources)) :
            /\ polOut.result =
                    [j \in 1..Cardinality(K) |->
                        polIn.resources[Ascending(K)[j]]]
            /\ \A i \in 1..Len(polIn.resources) :
                  LET resource == polIn.resources[i]
                  IN  IF resource.tenant_id # None
                      THEN i \in K <=>
                            can_access(polIn.ctx,
                                [resource EXCEPT !.access_level =
                                    IF @ = None THEN "team" ELSE @])
                      ELSE i \in K =>
                            \/ resource.user_id = polIn.ctx.user_id
                            \/ can_access_system_resources(polIn.ctx)

(***************************************************************************)
(* SpecClassify: classify and ingest applied to drawn inputs               *)
(***************************************************************************)
ClassifyInputs ==
    [file : Files, force_class : {None} \cup DataClasses, cfg : RouterConfigs,
     primary : ExtractOutcomes, fallback : ExtractOutcomes,
     user_id : {"u1"}, tenant_id : Tenants, acl_groups : {{}, {"g1"}},
     now : {1}]

InitClassify ==
    /\ clsIn \in ClassifyInputs
    /\ clsOut = NoCall
    /\ InitPolicyVars
    /\ InitFusionVars
    /\ InitWorkflowVars
    /\ InitAppVars

ClassifyCall ==
    /\ clsOut.op = "none"
    /\ clsOut' = [op |-> "classify", result |-> classify(clsIn.file)]
    /\ UNCHANGED <<clsIn, polVars, fusVars, appVars, wf>>

IngestCall ==
    /\ clsOut.op = "none"
    /\ \E uuid \in uuid4_hex :
          clsOut' = [op |-> "ingest",
                     result |-> ingest(clsIn.cfg, clsIn.file, clsIn.force_class,
                                       clsIn.user_id, clsIn.tenant_id,
                                       clsIn.acl_groups, clsIn.primary,
                                       clsIn.fallback, uuid, clsIn.now)]
    /\ UNCHANGED <<clsIn, polVars, fusVars, appVars, wf>>

NextClassify ==
    \/ ClassifyCall
    \/ IngestCall

SpecClassify == InitClassify /\ [][NextClassify]_vars

(***************************************************************************)
(* C9: on everything ingest produces, the decay rate is the constant of   *)
(* the final data class, also under an explicit class override.            *)
(***************************************************************************)
C9_IngestDecayFollowsClass ==
    (clsOut.op = "ingest" /\ clsOut.result.status = "ok") =>
        LET r == clsOut.result
        IN  /\ r.classification.decay_rate
                = DECAY_RATES[r.classification.data_class]
            /\ \A i \in 1..Len(r.chunks) :
                  r.chunks[i].metadata.decay_rate
                      = DECAY_RATES[r.chunks[i].metadata.data_class]

(***************************************************************************)
(* C10: classify returns one of the three data classes for every file      *)
(* name, with the decay rate fixed for that class (0.01 / 0.50 / 0.90).    *)
(***************************************************************************)
C10_ClassifyTotalAndDecay ==
    clsOut.op = "classify" =>
        /\ clsOut.result.data_class \in DataClasses
        /\ clsOut.result.data_class = "immutable_truth"
              => clsOut.result.decay_rate = 1
        /\ clsOut.result.data_class = "ephemeral_stream"
              => clsOut.result.decay_rate = 50
        /\ clsOut.result.data_class = "operational_pulse"
              => clsOut.result.decay_rate = 90

\* an unknown suffix has been classified to the default class
C10_Witness ==
    /\ clsOut.op = "classify"
    /\ clsIn.file.ext = ".xyz"
    /\ clsOut.result.data_class = "ephemeral_stream"
    /\ clsOut.result.decay_rate = 50

(***************************************************************************)
(* SpecFileClass: classify applied to every file name                      *)
(***************************************************************************)
InitFileClass ==
    /\ clsIn \in [file : Files, force_class : {None},
                  cfg : {[fallback_to_unstructured |-> TRUE,
                          docling_arg |-> TRUE, docling_env |-> TRUE]},
                  primary : {0}, fallback : {0}, user_id : {"u1"},
                  tenant_id : {"tA"}, acl_groups : {{}}, now : {1}]
    /\ clsOut = NoCall
    /\ InitPolicyVars
    /\ InitFusionVars
    /\ InitWorkflowVars
    /\ InitAppVars

NextFileClass == ClassifyCall

SpecFileClass == InitFileClass /\ [][NextFileClass]_vars

(***************************************************************************)
(* C21: classify chooses the data class by the first matching rule on the  *)
(* lower-cased extension: in the truth set, immutable_truth; in the        *)
(* operational set, operational_pulse (also with a technical keyword in    *)
(* the name); in the ephemeral set, immutable_truth if the name contains a *)
(* technical keyword, else ephemeral_stream; unknown, ephemeral_stream     *)
(* (also with a technical keyword in the name).                            *)
(***************************************************************************)
C21_FirstMatchingRuleDecidesClass ==
    clsOut.op = "classify" =>
        LET ext == Lower(clsIn.file.ext)
            technical ==
                \E i \in 1..Len(clsIn.file.words) :
                    KeywordsIn(Lower(clsIn.file.words[i])) \cap TRUTH_KEYWORDS
                        # {}
        IN  clsOut.result.data_class =
                CASE ext \in {".pdf", ".scidoc"} -> "immutable_truth"
                  [] ext \in {".csv", ".parquet", ".json", ".log", ".jsonl",
                              ".xlsx"} -> "operational_pulse"
                  [] ext \in {".pptx", ".docx", ".doc", ".eml", ".msg",
                              ".html", ".md", ".txt"} ->
                        IF technical THEN "immutable_truth"
                        ELSE "ephemeral_stream"
                  [] OTHER -> "ephemeral_stream"

\* Manual.csv is operational, and comparison.xyz is not upgraded
C21_Witness ==
    /\ clsOut.op = "classify"
    /\ \/ /\ clsIn.file = [words |-> <<"Manual">>, ext |-> ".csv"]
          /\ clsOut.result.data_class = "operational_pulse"
       \/ /\ clsIn.file = [words |-> <<"comparison">>, ext |-> ".xyz"]
          /\ clsOut.result.data_class = "ephemeral_stream"

(***************************************************************************)
(* SpecEngine: ingest under every router configuration and engine outcome  *)
(***************************************************************************)
\* one file name per data class
EngineFiles ==
    {[words |-> <<"notes">>, ext |-> e] : e \in {".pdf", ".txt", ".csv"}}

InitEngine ==
    /\ clsIn \in [file : EngineFiles, force_class : {None} \cup DataClasses,
                  cfg : RouterConfigs, primary : ExtractOutcomes,
                  fallback : ExtractOutcomes, user_id : {"u1"},
                  tenant_id : Tenants, acl_groups : {{}, {"g1"}}, now : {1}]
    /\ clsOut = NoCall
    /\ InitPolicyVars
    /\ InitFusionVars
    /\ InitWorkflowVars
    /\ InitAppVars

NextEngine == IngestCall

SpecEngine == InitEngine /\ [][NextEngine]_vars

(***************************************************************************)
(* C11: in ingest the ephemeral-stream engine is run in place of the       *)
(* selected one iff the data class is immutable_truth, the truth engine is *)
(* disabled in the router's configuration (self.docling_enabled is false)  *)
(* or raised in extract, and fallback is enabled; a disabled or raising    *)
(* engine in any other case makes ingest raise and return no chunks.       *)
(***************************************************************************)
C11_FallbackOnlyForTruthClass ==
    clsOut.op = "ingest" =>
        LET r == clsOut.result
            truth == r.classification.data_class = "immutable_truth"
            disabled == ~docling_enabled(clsIn.cfg)
            raised == r.ran # <<>> /\ clsIn.primary = Raises
            truth_raised == raised /\ r.ran[1] = "immutable_truth"
            fell_back == truth /\ "ephemeral_stream" \in Range(r.ran)
        IN  /\ fell_back <=>
                  (/\ truth
                   /\ disabled \/ truth_raised
                   /\ clsIn.cfg.fallback_to_unstructured)
            /\ ((truth /\ disabled) \/ raised) /\ ~fell_back
                  => (r.status = "error" /\ r.chunks = <<>>)

\* the truth engine raised, fallback is on, and the ephemeral-stream engine
\* returned the chunks of the immutable_truth document
C11_Witness ==
    /\ clsOut.op = "ingest"
    /\ clsOut.result.classification.data_class = "immutable_truth"
    /\ docling_enabled(clsIn.cfg)
    /\ clsIn.cfg.fallback_to_unstructured
    /\ clsIn.primary = Raises
    /\ clsOut.result.ran = <<"immutable_truth", "ephemeral_stream">>
    /\ clsOut.result.status = "ok"
    /\ Len(clsOut.result.chunks) = MaxChunks

(***************************************************************************)
(* Request handlers: /ingest, /documents, /search, /graph/query            *)
(***************************************************************************)
\* most documents ingested in one behaviour
MaxDocs == 2

\* the authenticated callers: two users of tenant tA, an admin of tenant tB
Contexts ==
    {[user_id |-> "u1", tenant_id |-> "tA", project_id |-> "p1",
      roles |-> {"viewer"}, groups |-> {"g1"}],
     [user_id |-> "u2", tenant_id |-> "tA", project_id |-> None,
      roles |-> {"viewer"}, groups |-> {}],
     [user_id |-> "u2", tenant_id |-> "tB", project_id |-> None,
      roles |-> {"admin"}, groups |-> {}]}

\* uploaded files: the file name and, per chunk the engine extracts, the
\* entity mentions of the chunk text
Corpus ==
    {[filename |-> [words |-> <<"notes">>, ext |-> ".txt"],
      texts |-> << <<Mention("Acme", "ORG"), Mention("Beta ", "ORG")>> >>],
     [filename |-> [words |-> <<"Manual">>, ext |-> ".pdf"],
      texts |-> << <<Mention("ACME", "ORG")>>, <<Mention("Beta", "ORG")>> >>],
     [filename |-> [words |-> <<"draft">>, ext |-> ".md"],
      texts |-> << <<Mention("AI", "ORG"), Mention("ACME", "PERSON"),
                     Mention("Acme", "ORG")>> >>]}

\* access_level form values: two valid levels and an invalid one
IngestAccessLevels == {"private", "tenant", "other"}

\* the upload requests: which caller uploads with which access_level. Both
\* tenants upload, tenant tA by two users and at both valid levels.
UploadRequests ==
    {r \in [ctx : Contexts, access_level : IngestAccessLevels] :
        \/ r.ctx.user_id = "u1"
        \/ r.ctx.tenant_id = "tA" /\ r.access_level = "private"
        \/ r.ctx.tenant_id = "tB" /\ r.access_level = "tenant"}

VALID_ACCESS_LEVELS == {"private", "team", "project", "tenant"}

Queries == {"acme"}

Limits == {1, MaxLimit}

\* deployments: with the embedding service and the spaCy model, or bare
Deployments == {[embedding |-> b, spacy |-> b] : b \in BOOLEAN}

\* get_router(): DocumentIngestionRouter() with its default arguments
DefaultRouter ==
    [fallback_to_unstructured |-> TRUE, docling_arg |-> TRUE,
     docling_env |-> TRUE]

\* ingest_bytes writes the upload to a temporary file that keeps only the
\* suffix of the uploaded name
TempFile(filename) == [words |-> <<"tmp">>, ext |-> filename.ext]

DocumentRow(doc_id, upload, ctx, access_level, classification, provenance_id, n) ==
    [id |-> doc_id, filename |-> upload.filename,
     data_class |-> classification.data_class,
     sensitivity_level |-> classification.sensitivity_level,
     decay_rate |-> classification.decay_rate,
     provenance_id |-> provenance_id,
     tenant_id |-> ctx.tenant_id, user_id |-> ctx.user_id,
     acl_groups |-> ctx.groups, project_id |-> ctx.project_id,
     access_level |-> access_level, chunk_count |-> n]

ChunkRow(doc_id, i, text, embedded, ctx, access_level, classification, provenance_id) ==
    [id |-> <<doc_id, i - 1>>, document_id |-> doc_id, text |-> text,
     embedded |-> embedded,
     data_class |-> classification.data_class,
     provenance_id |-> provenance_id,
     decay_rate |-> classification.decay_rate,
     tenant_id |-> ctx.tenant_id, user_id |-> ctx.user_id,
     project_id |-> ctx.project_id, access_level |-> access_level,
     acl_groups |-> ctx.groups]

\* A read request and a rejected or failed upload leave the stores as they
\* are, so the response to a later request does not depend on them: a
\* behaviour keeps one such request, as its last step, and every (stores,
\* request) pair is still reached.
ReadOps == {"list_documents", "search", "graph_query"}

ReadDone == lastCall.op \in ReadOps \/ lastCall.status \in {400, 500}

\* POST /ingest: validate, run the router, persist the document and its
\* chunks (a chunk whose embedding call raises is stored without embedding),
\* commit, then build the graph (a failed build is only logged; its writes
\* are not committed). embed_fail: the chunks whose embedding call raises.
ingest_document(ctx, upload, access_level, primary, embed_fail, graph_raises) ==
    IF access_level \notin VALID_ACCESS_LEVELS
    THEN /\ lastCall' = [op |-> "ingest", status |-> 400]
         /\ UNCHANGED storeVars
    ELSE
    LET doc_id == FreshId(documents)
        r == ingest(DefaultRouter, TempFile(upload.filename), None,
                    ctx.user_id, ctx.tenant_id, {}, primary,
                    Len(upload.texts), doc_id, doc_id)
    IN  IF r.status = "error"
        THEN /\ lastCall' = [op |-> "ingest", status |-> 500]
             /\ UNCHANGED storeVars
        ELSE
        LET n == Len(r.chunks)
            provenance_id ==
                IF n > 0 THEN r.chunks[1].metadata.provenance_id
                ELSE <<"doc", doc_id>>
            texts == [i \in 1..n |-> upload.texts[r.chunks[i].text]]
            g == IF graph_raises
                 THEN [nodes |-> graph_nodes, edges |-> graph_edges]
                 ELSE build_from_chunks(settings.spacy, graph_nodes,
                                        graph_edges, texts, doc_id,
                                        ctx.tenant_id)
        IN  /\ documents' = Append(documents,
                    DocumentRow(doc_id, upload, ctx, access_level,
                                r.classification, provenance_id, n))
            /\ chunks' = chunks \o
                    [i \in 1..n |->
                        ChunkRow(doc_id, i, texts[i],
                                 settings.embedding /\ i \notin embed_fail,
                                 ctx,
                                 access_level, r.classification,
                                 provenance_id)]
            /\ graph_nodes' = g.nodes
            /\ graph_edges' = g.edges
            /\ lastCall' = [op |-> "ingest", status |-> 200, ctx |-> ctx,
                            document_id |-> doc_id,
                            chunks_processed |-> n,
                            classification |-> r.classification,
                            metadata |->
                                [i \in 1..n |-> r.chunks[i].metadata]]

\* An upload whose embedding calls and graph build succeed (the failing ones
\* are the uploads of SpecIngestion).
IngestDocument ==
    /\ ~ReadDone
    /\ Len(documents) < MaxDocs
    /\ \E req \in UploadRequests, upload \in Corpus :
          \E primary \in {Raises, Len(upload.texts)} :
            ingest_document(req.ctx, upload, req.access_level, primary,
                            {}, FALSE)
    /\ UNCHANGED <<settings, builds, polVars, clsVars, fusVars, wf>>

\* GET /documents: the policy filter on the documents table, newest first
list_documents(ctx, limit) ==
    LET filter == build_query_filter(ctx, FullModel)
        Admitted(d) == RowAdmitted(filter, ctx, d)
        Newest(i) == documents[i].id
        rows == Take(SortDesc(IndexesWhere(documents, Admitted), Newest), limit)
    IN  [i \in 1..Len(rows) |-> documents[rows[i]]]

ListDocuments ==
    /\ ~ReadDone
    /\ \E ctx \in Contexts :
          lastCall' = [op |-> "list_documents", status |-> 200, ctx |-> ctx,
                       documents |-> list_documents(ctx, MaxDocs + 1)]
    /\ UNCHANGED <<settings, storeVars, builds, polVars, clsVars, fusVars, wf>>

\* the modalities a mode runs
ModalitiesOf(mode) == IF mode = "trisearch" THEN Modalities ELSE {mode}

\* GET /search: TriSearchEngine.search with the caller's tenant; an exception
\* of search is the framework's 500 response. A failing store query is drawn
\* for the requests with the largest limit.
Search ==
    /\ ~ReadDone
    /\ \E ctx \in Contexts, q \in Queries, mode \in SearchModes,
          limit \in Limits :
          \E embedding \in
                IF settings.embedding /\ mode \in {"vector", "trisearch"}
                THEN {NoEmbedding, Embed(<<Mention(q, "")>>)}
                ELSE {NoEmbedding},
             failing \in IF limit = MaxLimit
                         THEN {None} \cup ModalitiesOf(mode) ELSE {None} :
          LET r == search(documents, chunks, graph_nodes, graph_edges, q,
                          mode, ctx.tenant_id, limit, RRF_K, embedding,
                          failing)
          IN  lastCall' =
                IF r.status = "error"
                THEN [op |-> "search", status |-> 500, mode |-> mode,
                      embedding |-> embedding, failing |-> failing]
                ELSE [op |-> "search", status |-> 200, mode |-> mode,
                      ctx |-> ctx, limit |-> limit, embedding |-> embedding,
                      failing |-> failing, response |-> r.response]
    /\ UNCHANGED <<settings, storeVars, builds, polVars, clsVars, fusVars, wf>>

\* GET /graph/query: KnowledgeGraphBuilder.query with the caller's tenant
QueryGraph ==
    /\ ~ReadDone
    /\ \E ctx \in Contexts, entity \in Queries, depth \in {1, 2},
          limit \in Limits :
          lastCall' = [op |-> "graph_query", status |-> 200, ctx |-> ctx,
                       entity |-> entity,
                       depth |-> depth, limit |-> limit,
                       result |-> query(graph_nodes, graph_edges, entity,
                                        depth, ctx.tenant_id, limit)]
    /\ UNCHANGED <<settings, storeVars, builds, polVars, clsVars, fusVars, wf>>

Init ==
    /\ settings \in Deployments
    /\ documents = <<>>
    /\ chunks = <<>>
    /\ graph_nodes = <<>>
    /\ graph_edges = <<>>
    /\ lastCall = NoCall
    /\ builds = NoBuilds
    /\ InitPolicyVars
    /\ InitClassifyVars
    /\ InitFusionVars
    /\ InitWorkflowVars

Next ==
    \/ IngestDocument
    \/ ListDocuments
    \/ Search
    \/ QueryGraph

Spec == Init /\ [][Next]_vars

(***************************************************************************)
(* C3: every result of a search request is a chunk of the caller's tenant, *)
(* in every mode, whatever was ingested before by whichever tenants.       *)
(***************************************************************************)
C3_SearchResultsInTenant ==
    (lastCall.op = "search" /\ lastCall.status = 200) =>
        \A i \in 1..Len(lastCall.response.results) :
            \A c \in Range(chunks) :
                c.id = lastCall.response.results[i].chunk_id
                    => c.tenant_id = lastCall.ctx.tenant_id

(***************************************************************************)
(* C4: every node's document list holds only documents of the node's own   *)
(* tenant, and every edge joins two nodes of the edge's own tenant.        *)
(***************************************************************************)
C4_GraphWritesStayInTenant ==
    /\ \A n \in Range(graph_nodes) :
          \A d \in Range(documents) :
              d.id \in Range(n.document_ids) => d.tenant_id = n.tenant_id
    /\ \A e \in Range(graph_edges) :
          \A n \in Range(graph_nodes) :
              n.id \in {e.source_id, e.target_id}
                  => n.tenant_id = e.tenant_id

(***************************************************************************)
(* C6, as stated: when two documents of one tenant were built one after    *)
(* the other and the NER reported, for both, an entity with the same label *)
(* (compared case-insensitively) and the same type, exactly one node has   *)
(* that (label, type) pair and its document list holds both document ids.  *)
(***************************************************************************)
C6_SameEntityOneNode_Stated ==
    settings.spacy =>
        \A d1, d2 \in Range(documents) :
            (d1.id < d2.id /\ d1.tenant_id = d2.tenant_id) =>
                LET Reported(d) ==
                        UNION {Range(c.text) :
                                 c \in {c2 \in Range(chunks) :
                                          c2.document_id = d.id}}
                IN  \A e1 \in Reported(d1), e2 \in Reported(d2) :
                        (/\ LowerText(e1.text) = LowerText(e2.text)
                         /\ e1.label = e2.label) =>
                            LET M == {n \in Range(graph_nodes) :
                                        /\ LowerText(n.label) = LowerText(e1.text)
                                        /\ n.entity_type = e1.label}
                            IN  /\ Cardinality(M) = 1
                                /\ \A n \in M :
                                      {d1.id, d2.id} \subseteq Range(n.document_ids)

(***************************************************************************)
(* C6, amended: when two documents of one tenant were built one after the  *)
(* other and the deduplicated entity lists of both calls (texts longer     *)
(* than two characters, the first mention per case-insensitive stripped    *)
(* text) hold an entity with the same label (compared case-insensitively)  *)
(* and the same type, exactly one node of the store has that (label, type) *)
(* pair and its document list holds both document ids.                     *)
(***************************************************************************)
C6_SameEntityOneNode ==
    settings.spacy =>
        \A d1, d2 \in Range(documents) :
            (d1.id < d2.id /\ d1.tenant_id = d2.tenant_id) =>
                LET Rows(d) == LET Of(c) == c.document_id = d.id
                               IN  SelectSeq(chunks, Of)
                    Upserted(d) ==
                        Range(UniqueEntities(AllEntities(
                            [i \in 1..Len(Rows(d)) |-> Rows(d)[i].text])))
                IN  \A e1 \in Upserted(d1), e2 \in Upserted(d2) :
                        (/\ LowerText(e1.text) = LowerText(e2.text)
                         /\ e1.label = e2.label) =>
                            LET M == {n \in Range(graph_nodes) :
                                        /\ LowerText(n.label) = LowerText(e1.text)
                                        /\ n.entity_type = e1.label}
                            IN  /\ Cardinality(M) = 1
                                /\ \A n \in M :
                                      {d1.id, d2.id} \subseteq Range(n.document_ids)

\* two documents of tenant tA, one mentioning Acme and the other ACME as an
\* ORG, have been built and one node carries both document ids
C6_Witness ==
    /\ settings.spacy
    /\ Len(documents) = 2
    /\ \A d \in Range(documents) : d.tenant_id = "tA"
    /\ \E c \in Range(chunks) :
          c.document_id = 1 /\ Mention("Acme", "ORG") \in Range(c.text)
    /\ \E c \in Range(chunks) :
          c.document_id = 2 /\ Mention("ACME", "ORG") \in Range(c.text)
    /\ Cardinality({n \in Range(graph_nodes) :
                      LowerText(n.label) = "acme" /\ n.entity_type = "ORG"}) = 1
    /\ \E n \in Range(graph_nodes) :
          /\ n.label = "Acme" /\ n.entity_type = "ORG"
          /\ n.document_ids = <<1, 2>>

(***************************************************************************)
(* C7: every node and every edge a graph query returns is tagged with the  *)
(* caller's tenant.                                                        *)
(***************************************************************************)
C7_GraphQueryInTenant ==
    lastCall.op = "graph_query" =>
        /\ \A i \in 1..Len(lastCall.result.nodes) :
              \A n \in Range(graph_nodes) :
                  n.id = lastCall.result.nodes[i].id
                      => n.tenant_id = lastCall.ctx.tenant_id
        /\ \A i \in 1..Len(lastCall.result.edges) :
              \A e \in Range(graph_edges) :
                  e.id = lastCall.result.edges[i].id
                      => e.tenant_id = lastCall.ctx.tenant_id

(***************************************************************************)
(* C8: a read returns to ctx only what can_access(ctx, resource) allows:   *)
(* every listed document, every chunk of a search response, and every node *)
(* of a graph query (a node is allowed when ctx can access one of the      *)
(* documents of its document list).                                        *)
(***************************************************************************)
C8_ReadsFollowAccessPolicy ==
    /\ lastCall.op = "list_documents" =>
          \A i \in 1..Len(lastCall.documents) :
              can_access(lastCall.ctx, lastCall.documents[i])
    /\ (lastCall.op = "search" /\ lastCall.status = 200) =>
          \A i \in 1..Len(lastCall.response.results) :
              \A c \in Range(chunks) :
                  c.id = lastCall.response.results[i].chunk_id
                      => can_access(lastCall.ctx, c)
    /\ lastCall.op = "graph_query" =>
          \A i \in 1..Len(lastCall.result.nodes) :
              \A n \in Range(graph_nodes) :
                  n.id = lastCall.result.nodes[i].id =>
                      \E d \in Range(documents) :
                          /\ d.id \in Range(n.document_ids)
                          /\ can_access(lastCall.ctx, d)

(***************************************************************************)
(* C15: in trisearch mode a failing store query of one modality (lexical,  *)
(* vector or graph) never makes the search fail: the request is answered   *)
(* with a response in which the failed modality contributes nothing.       *)
(***************************************************************************)
C15_TrisearchSurvivesModalityFailure ==
    (/\ lastCall.op = "search"
     /\ lastCall.mode = "trisearch"
     /\ lastCall.failing # None) =>
        /\ lastCall.status = 200
        /\ lastCall.failing = "keyword" => lastCall.response.keyword_count = 0
        /\ lastCall.failing = "vector" => lastCall.response.vector_count = 0
        /\ lastCall.failing = "graph" => lastCall.response.graph_count = 0

(***************************************************************************)
(* C16: when no embedding is obtained for the query (the collaborator is   *)
(* not configured, or it raised) and the lexical store query does not      *)
(* fail, a search that runs the vector modality is answered; its           *)
(* vector_count is 0 and the vector store is not queried (a vector store   *)
(* that would raise is not noticed); in vector mode the result is empty    *)
(* with total 0, in trisearch mode it is the fusion of the lexical and the *)
(* graph lists cut at limit.                                               *)
(***************************************************************************)
C16_NoEmbeddingGivesEmptyVectorList ==
    (/\ lastCall.op = "search"
     /\ lastCall.mode \in {"vector", "trisearch"}
     /\ lastCall.embedding = NoEmbedding
     /\ lastCall.failing # "keyword") =>
        /\ lastCall.status = 200
        /\ lastCall.response.vector_count = 0
        /\ lastCall.mode = "vector" =>
              /\ lastCall.response.results = <<>>
              /\ lastCall.response.total = 0
        /\ lastCall.mode = "trisearch" =>
              LET kw == _keyword_search(documents, chunks, lastCall.response.query,
                                        lastCall.ctx.tenant_id,
                                        lastCall.limit, FALSE)
                  gr == _graph_search(documents, chunks, graph_nodes,
                                      graph_edges, lastCall.response.query,
                                      lastCall.ctx.tenant_id, lastCall.limit,
                                      lastCall.failing = "graph")
              IN  lastCall.response.results =
                    Take(_reciprocal_rank_fusion(
                            <<kw.results, <<>>, gr.results>>, RRF_K),
                         lastCall.limit)

\* the embedding service is configured but gave no embedding, the vector
\* store would have raised, and the fused response is not empty
C16_Witness ==
    /\ lastCall.op = "search"
    /\ lastCall.status = 200
    /\ lastCall.mode = "trisearch"
    /\ settings.embedding
    /\ lastCall.embedding = NoEmbedding
    /\ lastCall.failing = "vector"
    /\ lastCall.response.total > 0
    /\ \E c \in Range(chunks) : c.embedded

(***************************************************************************)
(* C28: across any sequence of build_from_chunks, graph query and search   *)
(* calls the graph only grows: no node or edge is removed, the weight of   *)
(* an edge never decreases, the document list of a node only changes by    *)
(* appending, and query and search leave the graph store unchanged.        *)
(***************************************************************************)
C28_GraphOnlyGrows ==
    [][/\ Len(graph_nodes') >= Len(graph_nodes)
       /\ \A i \in 1..Len(graph_nodes) :
             LET old == graph_nodes[i]
                 new == graph_nodes'[i]
             IN  /\ new.id = old.id
                 /\ new.label = old.label
                 /\ new.entity_type = old.entity_type
                 /\ new.tenant_id = old.tenant_id
                 /\ Len(new.document_ids) >= Len(old.document_ids)
                 /\ SubSeq(new.document_ids, 1, Len(old.document_ids))
                       = old.document_ids
       /\ Len(graph_edges') >= Len(graph_edges)
       /\ \A i \in 1..Len(graph_edges) :
             LET old == graph_edges[i]
                 new == graph_edges'[i]
             IN  /\ new.id = old.id
                 /\ new.source_id = old.source_id
                 /\ new.target_id = old.target_id
                 /\ new.relationship = old.relationship
                 /\ new.weight >= old.weight
       /\ (lastCall'.op \in {"search", "graph_query"}) =>
             (graph_nodes' = graph_nodes /\ graph_edges' = graph_edges)
      ]_vars

\* a search answered on a graph in which a second upload appended its
\* document to an existing node and incremented an existing edge
C28_Witness ==
    /\ lastCall.op = "search"
    /\ \E i \in 1..Len(graph_nodes) : Len(graph_nodes[i].document_ids) = 2
    /\ \E i \in 1..Len(graph_edges) : graph_edges[i].weight = 2

(***************************************************************************)
(* SpecIngestion: one ingestion, by the /ingest handler or by              *)
(* IngestionWorkflow.run, with failing embedding calls and graph builds    *)
(***************************************************************************)
\* RetryPolicy(maximum_attempts=3)
MAXIMUM_ATTEMPTS == 3

\* the activities of IngestionWorkflow.run, in the order it awaits them
Activities == <<"classify", "extract", "embed", "graph", "persist">>

\* workflow.execute_activity returned: the workflow goes on to its next await
ActivityReturned(w) ==
    IF w.step = Len(Activities)
    THEN [w EXCEPT !.status = "completed"]
    ELSE [w EXCEPT !.step = @ + 1, !.attempt = 1]

\* an attempt of the activity raised or ran past start_to_close_timeout: it
\* is retried until maximum_attempts, then execute_activity raises and the
\* workflow, which catches nothing, fails
ActivityFailed(w) ==
    IF w.attempt < MAXIMUM_ATTEMPTS
    THEN [w EXCEPT !.attempt = @ + 1]
    ELSE [w EXCEPT !.status = "failed"]

Running(activity) ==
    /\ wf.status = "running"
    /\ Activities[wf.step] = activity

\* the rows persist_chunks_activity adds; it sets none of the columns
\* provenance_id, user_id, project_id, access_level, acl_groups
WorkflowChunkRow(document_id, i, chunk, data_class, tenant_id) ==
    [id |-> <<document_id, i - 1>>, document_id |-> document_id,
     text |-> chunk.text, embedded |-> chunk.embedded,
     data_class |-> data_class, provenance_id |-> None,
     decay_rate |-> chunk.decay_rate,
     tenant_id |-> tenant_id, user_id |-> None,
     project_id |-> None, access_level |-> None, acl_groups |-> {}]

\* a client starts IngestionWorkflow.run(file_path, filename, document_id,
\* tenant_id)
StartWorkflow ==
    /\ wf.status = "idle"
    /\ lastCall = NoCall
    /\ \E upload \in Corpus, tenant_id \in Tenants :
          wf' = [status |-> "running", step |-> 1, attempt |-> 1,
                 upload |-> upload, document_id |-> FreshId(documents),
                 tenant_id |-> tenant_id,
                 classification |-> [data_class |-> None, decay_rate |-> 0],
                 chunks |-> <<>>, chunk_count |-> 0]
    /\ UNCHANGED <<appVars, polVars, clsVars, fusVars>>

\* classify_document_activity
ClassifyActivity ==
    /\ Running("classify")
    /\ LET classification == classify(wf.upload.filename)
       IN  wf' = ActivityReturned(
                    [wf EXCEPT !.classification =
                        [data_class |-> classification.data_class,
                         decay_rate |-> classification.decay_rate]])
    /\ UNCHANGED <<appVars, polVars, clsVars, fusVars>>

\* extract_chunks_activity: router.ingest with the class forced; the chunks
\* come back as dicts of text and metadata
ExtractActivity ==
    /\ Running("extract")
    /\ LET r == ingest(DefaultRouter, wf.upload.filename,
                       wf.classification.data_class, None, None, {},
                       Len(wf.upload.texts), Len(wf.upload.texts),
                       wf.document_id, wf.document_id)
       IN  wf' = ActivityReturned(
                    [wf EXCEPT !.chunks =
                        [i \in 1..Len(r.chunks) |->
                            [text |-> wf.upload.texts[r.chunks[i].text],
                             decay_rate |-> r.chunks[i].metadata.decay_rate,
                             embedded |-> FALSE]]])
    /\ UNCHANGED <<appVars, polVars, clsVars, fusVars>>

\* generate_embeddings_activity: without the service the chunks come back as
\* they are; a raising embedding call ends the loop and is logged, the
\* chunks before it keep their embedding; an attempt that runs past the
\* timeout fails. embedded: the chunks embedded before the call that raises
\* (all of them when none raises).
EmbedActivity ==
    /\ Running("embed")
    /\ \/ /\ ~settings.embedding
          /\ wf' = ActivityReturned(wf)
       \/ /\ settings.embedding
          /\ \E embedded \in 0..Len(wf.chunks) :
                wf' = ActivityReturned(
                        [wf EXCEPT !.chunks =
                            [i \in 1..Len(wf.chunks) |->
                                [wf.chunks[i] EXCEPT
                                    !.embedded = i <= embedded]]])
       \/ /\ settings.embedding
          /\ wf' = ActivityFailed(wf)
    /\ UNCHANGED <<appVars, polVars, clsVars, fusVars>>

\* build_graph_activity: build_from_chunks and commit in a session of its
\* own; an exception of the build (or a timeout) fails the attempt and
\* leaves the graph tables as they were
GraphActivity ==
    /\ Running("graph")
    /\ \/ /\ wf' = ActivityFailed(wf)
          /\ UNCHANGED <<graph_nodes, graph_edges>>
       \/ LET texts == [i \in 1..Len(wf.chunks) |-> wf.chunks[i].text]
              g == build_from_chunks(settings.spacy, graph_nodes,
                                     graph_edges, texts, wf.document_id,
                                     wf.tenant_id)
          IN  /\ wf' = ActivityReturned(wf)
              /\ graph_nodes' = g.nodes
              /\ graph_edges' = g.edges
    /\ UNCHANGED <<settings, documents, chunks, lastCall, builds, polVars,
                   clsVars, fusVars>>

\* persist_chunks_activity
PersistActivity ==
    /\ Running("persist")
    /\ chunks' = chunks \o
            [i \in 1..Len(wf.chunks) |->
                WorkflowChunkRow(wf.document_id, i, wf.chunks[i],
                                 wf.classification.data_class, wf.tenant_id)]
    /\ wf' = ActivityReturned([wf EXCEPT !.chunk_count = Len(wf.chunks)])
    /\ UNCHANGED <<settings, documents, graph_nodes, graph_edges, lastCall,
                   builds, polVars, clsVars, fusVars>>

\* POST /ingest of a valid upload whose extraction succeeds, with failing
\* embedding calls and a failing graph build among the inputs
IngestWithFailures ==
    /\ wf.status = "idle"
    /\ lastCall = NoCall
    /\ \E req \in {r \in UploadRequests :
                        r.access_level \in VALID_ACCESS_LEVELS},
          upload \in Corpus, graph_raises \in BOOLEAN :
          \E embed_fail \in SUBSET (1..Len(upload.texts)) :
            ingest_document(req.ctx, upload, req.access_level,
                            Len(upload.texts), embed_fail, graph_raises)
    /\ UNCHANGED <<settings, builds, polVars, clsVars, fusVars, wf>>

InitIngestion ==
    /\ settings \in Deployments
    /\ InitWorkflowVars
    /\ documents = <<>>
    /\ chunks = <<>>
    /\ graph_nodes = <<>>
    /\ graph_edges = <<>>
    /\ lastCall = NoCall
    /\ builds = NoBuilds
    /\ InitPolicyVars
    /\ InitClassifyVars
    /\ InitFusionVars

NextIngestion ==
    \/ IngestWithFailures
    \/ StartWorkflow
    \/ ClassifyActivity
    \/ ExtractActivity
    \/ EmbedActivity
    \/ GraphActivity
    \/ PersistActivity

\* every activity of IngestionWorkflow.run
RunActivity ==
    \/ ClassifyActivity
    \/ ExtractActivity
    \/ EmbedActivity
    \/ GraphActivity
    \/ PersistActivity

\* the workflow engine runs every scheduled activity attempt
SpecIngestion ==
    InitIngestion /\ [][NextIngestion]_vars /\ WF_vars(RunActivity)

\* the chunks of document document_id in the chunks table
PersistedChunks(document_id) ==
    Cardinality({c \in Range(chunks) : c.document_id = document_id})

(***************************************************************************)
(* C17: an ingestion in which only embedding calls and graph builds fail   *)
(* (or time out) is never aborted: the /ingest handler answers it 200 with *)
(* its chunks persisted, and a started IngestionWorkflow run eventually    *)
(* completes with its chunks persisted.                                    *)
(***************************************************************************)
C17_IngestionSurvivesEmbeddingAndGraphFailure ==
    /\ [](lastCall.op = "ingest" =>
            /\ lastCall.status = 200
            /\ PersistedChunks(lastCall.document_id) =
                    lastCall.chunks_processed)
    /\ (wf.status = "running") ~>
            (/\ wf.status = "completed"
             /\ PersistedChunks(wf.document_id) = Len(wf.chunks))

(***************************************************************************)
(* C22: when ingest has returned to the /ingest handler, every chunk of    *)
(* the document carries the same provenance id and ingestion timestamp,    *)
(* the decay rate, sensitivity and category list of the document, and the  *)
(* tenant id, user id, project id and ACL groups of the caller's context.  *)
(***************************************************************************)
C22_ChunksCarryDocumentAndCallerFields ==
    (lastCall.op = "ingest" /\ lastCall.status = 200) =>
        \A i \in 1..Len(lastCall.metadata) :
            LET m == lastCall.metadata[i]
                first == lastCall.metadata[1]
                c == lastCall.classification
            IN  /\ m.provenance_id = first.provenance_id
                /\ m.provenance_id # <<>>
                /\ m.ingested_at = first.ingested_at
                /\ m.decay_rate = c.decay_rate
                /\ m.sensitivity_level = c.sensitivity_level
                /\ m.data_categories = c.data_categories
                /\ m.tenant_id = lastCall.ctx.tenant_id
                /\ m.user_id = lastCall.ctx.user_id
                /\ m.project_id = lastCall.ctx.project_id
                /\ m.acl_groups = lastCall.ctx.groups

(***************************************************************************)
(* SpecGraph: build_from_chunks and the /graph/query handler called one    *)
(* after another on the graph tables                                       *)
(***************************************************************************)
\* largest number of build_from_chunks calls of one behaviour
MaxGraphBuilds == 3

\* chunk lists handed to build_from_chunks: a chunk naming one company in six
\* ways, two chunks that repeat a name in another case, and a chunk with a
\* short span and the same name under two labels
GraphTexts ==
    {<< <<Mention("Acme", "ORG"), Mention("Acme Inc", "ORG"),
          Mention("Acme Ltd", "ORG"), Mention("Acme Plc", "ORG"),
          Mention("Acme Llc", "ORG"), Mention("Acme Oyj", "ORG")>> >>,
     << <<Mention("Acme", "ORG"), Mention("Beta", "ORG")>>,
        <<Mention("ACME", "ORG")>> >>,
     << <<Mention("AI", "ORG"), Mention("ACME", "PERSON"),
          Mention("Acme", "ORG")>> >>}

\* the (source_id, target_id) arguments of the _upsert_edge calls of one
\* build_from_chunks call, in execution order
ObservedPairs(nlp, nodes, texts, document_id, tenant_id) ==
    IF ~nlp THEN <<>>
    ELSE LET ents == UniqueEntities(AllEntities(texts))
             n == UpsertNodes(nodes, ents, 1, <<>>, document_id, tenant_id)
             pairs == WindowPairs(Len(ents), 1, 2)
         IN  [p \in 1..Len(pairs) |-> <<n.node_ids[pairs[p][1]],
                                        n.node_ids[pairs[p][2]]>>]

\* history: how many times _upsert_edge was called for every pair of nodes
RECURSIVE Observe(_, _, _)
Observe(observed, pairs, p) ==
    IF p > Len(pairs) THEN observed
    ELSE LET s == pairs[p][1]
             t == pairs[p][2]
             old == {o \in observed : o.source_id = s /\ o.target_id = t}
             times == IF old = {} THEN 1
                      ELSE (CHOOSE o \in old : TRUE).times + 1
             rest == {o \in observed : o \notin old}
         IN  Observe(rest \cup {[source_id |-> s, target_id |-> t,
                                 times |-> times]}, pairs, p + 1)

IsBuild == lastCall.op = "build_from_chunks"

BuildsSoFar == IF IsBuild THEN lastCall.call ELSE 0

ObservedSoFar == IF IsBuild THEN lastCall.observed ELSE {}

\* one build_from_chunks call and its commit; nlp is what _get_nlp returns
BuildCall(nlp, texts, document_id, tenant_id, retry) ==
    LET g == build_from_chunks(nlp, graph_nodes, graph_edges, texts,
                               document_id, tenant_id)
        seen == ObservedPairs(nlp, graph_nodes, texts, document_id, tenant_id)
    IN  /\ graph_nodes' = g.nodes
        /\ graph_edges' = g.edges
        /\ lastCall' = [op |-> "build_from_chunks", status |-> 200,
                        call |-> BuildsSoFar + 1, retry |-> retry,
                        nlp |-> nlp, texts |-> texts,
                        document_id |-> document_id, tenant_id |-> tenant_id,
                        nodes_before |-> graph_nodes,
                        edges_before |-> graph_edges,
                        nodes_created |-> g.nodes_created,
                        edges_created |-> g.edges_created,
                        observed |-> Observe(ObservedSoFar, seen, 1)]
        /\ UNCHANGED <<settings, documents, chunks, builds, polVars, clsVars,
                       fusVars, wf>>

\* build_from_chunks for the chunks of a new document. spacy.load can fail
\* although the model is installed; it cannot succeed when it is not.
BuildGraph ==
    /\ ~ReadDone
    /\ BuildsSoFar < MaxGraphBuilds
    /\ \E texts \in GraphTexts, tenant_id \in Tenants,
          nlp \in {settings.spacy, FALSE} :
          BuildCall(nlp, texts,
                    IF IsBuild THEN lastCall.document_id + 1 ELSE 1,
                    tenant_id, FALSE)

\* build_graph_activity run again with the same arguments, on the same
\* worker, after an attempt that committed (the workflow's retry policy)
RebuildGraph ==
    /\ IsBuild
    /\ BuildsSoFar < MaxGraphBuilds
    /\ BuildCall(lastCall.nlp, lastCall.texts, lastCall.document_id,
                 lastCall.tenant_id, TRUE)

InitGraph ==
    /\ settings \in Deployments
    /\ documents = <<>>
    /\ chunks = <<>>
    /\ graph_nodes = <<>>
    /\ graph_edges = <<>>
    /\ lastCall = NoCall
    /\ builds = NoBuilds
    /\ InitPolicyVars
    /\ InitClassifyVars
    /\ InitFusionVars
    /\ InitWorkflowVars

NextGraph ==
    \/ BuildGraph
    \/ RebuildGraph
    \/ QueryGraph

SpecGraph == InitGraph /\ [][NextGraph]_vars

\* the nodes and edges a build_from_chunks call changed
EdgeOf(edges, s, t) ==
    {i \in 1..Len(edges) : /\ edges[i].source_id = s
                           /\ edges[i].target_id = t
                           /\ edges[i].relationship = "co_occurs"}

(***************************************************************************)
(* C23: for a document whose deduplicated entities (case-insensitive text, *)
(* first label seen) are e1..en in first-seen order, build_from_chunks     *)
(* upserts a co_occurs edge from ei to ej exactly for i < j <= i+4: those  *)
(* edges are created or get their weight incremented by one, and no other  *)
(* edge of the store is created or changed.                                *)
(***************************************************************************)
C23_EdgesLinkNextFourEntities ==
    (IsBuild /\ lastCall.nlp) =>
        LET all == AllEntities(lastCall.texts)
            first == {i \in 1..Len(all) :
                        \A k \in 1..(i - 1) :
                            LowerText(all[k].text) # LowerText(all[i].text)}
            Rank(i) == Cardinality({k \in first : k <= i})
            NodeOf(i) ==
                (CHOOSE n \in Range(graph_nodes) :
                    /\ LowerText(n.label) = LowerText(all[i].text)
                    /\ n.entity_type = all[i].label).id
            Linked(a, b) == Rank(a) < Rank(b) /\ Rank(b) <= Rank(a) + 4
            before == lastCall.edges_before
            Upserted(s, t) ==
                /\ Cardinality(EdgeOf(graph_edges, s, t)) = 1
                /\ \A i \in EdgeOf(graph_edges, s, t) :
                      IF EdgeOf(before, s, t) = {}
                      THEN graph_edges[i].weight = 1
                      ELSE \A k \in EdgeOf(before, s, t) :
                              graph_edges[i].weight = before[k].weight + 1
            Untouched(s, t) ==
                {graph_edges[i] : i \in EdgeOf(graph_edges, s, t)}
                    = {before[i] : i \in EdgeOf(before, s, t)}
            ids == {n.id : n \in Range(graph_nodes)}
            linked == {<<NodeOf(p[1]), NodeOf(p[2])>> :
                          p \in {q \in first \X first : Linked(q[1], q[2])}}
        IN  /\ \A a \in first :
                  \E n \in Range(graph_nodes) :
                      /\ LowerText(n.label) = LowerText(all[a].text)
                      /\ n.entity_type = all[a].label
            /\ \A s \in ids, t \in ids :
                  IF <<s, t>> \in linked THEN Upserted(s, t)
                  ELSE Untouched(s, t)

\* the six-entity chunk was built into an empty store: the first entity is
\* linked to the fifth and not to the sixth
C23_Witness ==
    /\ IsBuild
    /\ lastCall.nlp
    /\ lastCall.nodes_before = <<>>
    /\ Len(AllEntities(lastCall.texts)) = 6
    /\ EdgeOf(graph_edges, 1, 5) # {}
    /\ EdgeOf(graph_edges, 2, 6) # {}
    /\ EdgeOf(graph_edges, 1, 6) = {}

(***************************************************************************)
(* C24: after any sequence of build_from_chunks calls run one after        *)
(* another, the store holds at most one edge per (source, target,          *)
(* relationship) triple, and the weight of that edge is the number of      *)
(* times the pair was observed: 1 when created, one more on every repeat   *)
(* observation, hence at least 1.                                          *)
(***************************************************************************)
C24_OneEdgePerTripleWeightCountsObservations ==
    IsBuild =>
        /\ \A i, j \in 1..Len(graph_edges) :
              (/\ graph_edges[i].source_id = graph_edges[j].source_id
               /\ graph_edges[i].target_id = graph_edges[j].target_id
               /\ graph_edges[i].relationship = graph_edges[j].relationship)
                  => i = j
        /\ \A i \in 1..Len(graph_edges) :
              /\ graph_edges[i].weight >= 1
              /\ \E o \in lastCall.observed :
                    /\ o.source_id = graph_edges[i].source_id
                    /\ o.target_id = graph_edges[i].target_id
                    /\ o.times = graph_edges[i].weight
        /\ \A o \in lastCall.observed :
              EdgeOf(graph_edges, o.source_id, o.target_id) # {}

\* a pair of nodes was observed by two calls and its edge has weight 2, next
\* to an edge observed once
C24_Witness ==
    /\ IsBuild
    /\ \E i, j \in 1..Len(graph_edges) :
          /\ graph_edges[i].weight = 2
          /\ graph_edges[j].weight = 1

(***************************************************************************)
(* C25: in every reachable state of the graph store every edge has a       *)
(* source node different from its target node: build_from_chunks creates   *)
(* no self-loop, because two distinct deduplicated entity keys of one      *)
(* document never resolve to the same node.                                *)
(***************************************************************************)
C25_NoSelfLoops ==
    /\ \A i \in 1..Len(graph_edges) :
          graph_edges[i].source_id # graph_edges[i].target_id
    /\ (IsBuild /\ lastCall.nlp) =>
          LET ents == UniqueEntities(AllEntities(lastCall.texts))
          IN  \A a, b \in 1..Len(ents) :
                  (a # b) =>
                      NodeMatches(graph_nodes, ents[a].text, ents[a].label)
                        # NodeMatches(graph_nodes, ents[b].text,
                                      ents[b].label)

\* chunks that name one entity twice, in two cases, were built into edges
C25_Witness ==
    /\ IsBuild
    /\ lastCall.nlp
    /\ graph_edges # <<>>
    /\ LET all == AllEntities(lastCall.texts)
       IN  \E a, b \in 1..Len(all) :
              /\ a # b
              /\ all[a].text # all[b].text
              /\ all[a].label = all[b].label
              /\ LowerText(all[a].text) = LowerText(all[b].text)

(***************************************************************************)
(* C26: the counts build_from_chunks returns are the numbers of nodes and  *)
(* of edges the call created: an entity whose node already existed is not  *)
(* counted in nodes_created, and an edge whose weight was only incremented *)
(* is not counted in edges_created.                                        *)
(***************************************************************************)
C26_CountsAreRowsCreated ==
    IsBuild =>
        /\ lastCall.nodes_created
              = Len(graph_nodes) - Len(lastCall.nodes_before)
        /\ lastCall.edges_created
              = Len(graph_edges) - Len(lastCall.edges_before)

(***************************************************************************)
(* C27: graph query(entity, depth, tenant, limit) returns at most 5 seed   *)
(* nodes (nodes of the tenant whose label similarity to the query is above *)
(* the threshold), at most limit edges each of which touches a seed node,  *)
(* and besides the seeds exactly the nodes at the far end of the returned  *)
(* edges; the result is the same for every depth, and it is empty when no  *)
(* seed matches.                                                           *)
(***************************************************************************)
C27_QueryIsOneHopFromAtMostFiveSeeds ==
    (lastCall.op = "graph_query" /\ lastCall.status = 200) =>
        LET r == lastCall.result
            tenant == lastCall.ctx.tenant_id
            matching == {n.id : n \in
                            {m \in Range(graph_nodes) :
                                /\ similarity(m.label, lastCall.entity)
                                      > SIMILARITY_THRESHOLD
                                /\ m.tenant_id = tenant}}
            ids == {r.nodes[i].id : i \in 1..Len(r.nodes)}
            ends == UNION {{r.edges[i].source_id, r.edges[i].target_id} :
                              i \in 1..Len(r.edges)}
        IN  /\ Len(r.edges) <= lastCall.limit
            /\ \A i \in 1..Len(r.edges) :
                  \E k \in 1..Len(graph_edges) :
                      /\ graph_edges[k].id = r.edges[i].id
                      /\ graph_edges[k].source_id = r.edges[i].source_id
                      /\ graph_edges[k].target_id = r.edges[i].target_id
            /\ \E seeds \in SUBSET ids :
                  /\ Cardinality(seeds) <= 5
                  /\ seeds \subseteq matching
                  /\ \A i \in 1..Len(r.edges) :
                        \/ r.edges[i].source_id \in seeds
                        \/ r.edges[i].target_id \in seeds
                  /\ {x \in ids : x \notin seeds}
                        = {x \in ends : x \notin seeds}
            /\ (matching = {}) => (r.nodes = <<>> /\ r.edges = <<>>)
            /\ \A depth \in 1..3 :
                  query(graph_nodes, graph_edges, lastCall.entity, depth,
                        tenant, lastCall.limit) = r

\* six nodes of the tenant match the query; the result has five seeds, as
\* many edges as the limit allows and a far-end node that is no match
C27_Witness ==
    /\ lastCall.op = "graph_query"
    /\ Cardinality({n \in Range(graph_nodes) :
                       /\ similarity(n.label, lastCall.entity)
                             > SIMILARITY_THRESHOLD
                       /\ n.tenant_id = lastCall.ctx.tenant_id}) = 6
    /\ Len(lastCall.result.nodes) = 6
    /\ Len(lastCall.result.edges) = lastCall.limit
    /\ lastCall.limit > 1
    /\ \E i \in 1..Len(lastCall.result.nodes) :
          similarity(lastCall.result.nodes[i].label, lastCall.entity)
             <= SIMILARITY_THRESHOLD

(***************************************************************************)
(* C29: if the entity-recognition collaborator is unavailable,             *)
(* build_from_chunks returns nodes_created = 0 and edges_created = 0       *)
(* without raising and leaves the graph store unchanged, for every chunk   *)
(* list, document id and tenant.                                           *)
(***************************************************************************)
C29_NoNlpReturnsZeroCounts ==
    (IsBuild /\ ~lastCall.nlp) =>
        /\ lastCall.status = 200
        /\ lastCall.nodes_created = 0
        /\ lastCall.edges_created = 0
        /\ graph_nodes = lastCall.nodes_before
        /\ graph_edges = lastCall.edges_before

\* spacy.load failed for a call on a store that already has nodes and edges,
\* with chunks that have entities
C29_Witness ==
    /\ IsBuild
    /\ ~lastCall.nlp
    /\ ~lastCall.retry
    /\ lastCall.nodes_before # <<>>
    /\ lastCall.edges_before # <<>>
    /\ Len(AllEntities(lastCall.texts)) >= 2

(***************************************************************************)
(* C30: running build_from_chunks again with the same chunks and the same  *)
(* document id (build_graph_activity retried after an attempt that         *)
(* committed) leaves the graph store unchanged: the document list of every *)
(* node contains each document id at most once, and no edge weight is      *)
(* incremented a second time for the same document.                        *)
(***************************************************************************)
C30_RebuildLeavesGraphUnchanged ==
    /\ (IsBuild /\ lastCall.retry) =>
          /\ graph_nodes = lastCall.nodes_before
          /\ graph_edges = lastCall.edges_before
    /\ \A i \in 1..Len(graph_nodes) :
          LET ids == graph_nodes[i].document_ids
          IN  \A a, b \in 1..Len(ids) : (ids[a] = ids[b]) => a = b

(***************************************************************************)
(* SpecConc: build_from_chunks calls that interleave at their awaits       *)
(***************************************************************************)
\* Every db.execute of _upsert_node and _upsert_edge is an await, so calls
\* of different requests interleave statement by statement. A statement is
\* one step here and the next statement of any call sees its effect; with
\* one transaction per request a write shows to the other calls later
\* still, which adds interleavings and removes none of the outcomes below.

\* most build_from_chunks calls in one behaviour
MaxBuilds == 2

\* the unique entities a call works on
BuildEntities(texts) == UniqueEntities(AllEntities(texts))

\* the position of a call that has finished entity i - 1 of its node loop
AfterNode(ents, i) ==
    IF i <= Len(ents) THEN "node_check"
    ELSE IF WindowPairs(Len(ents), 1, 2) # <<>> THEN "edge_check"
    ELSE "done"

\* the position of a call that has finished pair p - 1 of its edge loop
AfterEdge(ents, p) ==
    IF p <= Len(WindowPairs(Len(ents), 1, 2)) THEN "edge_check" ELSE "done"

\* a call enters build_from_chunks: NER, the entity list, the dedup
StartBuild ==
    /\ Len(builds) < MaxBuilds
    /\ \E tenant_id \in Tenants, upload \in Corpus :
          LET ents == IF settings.spacy THEN BuildEntities(upload.texts)
                      ELSE <<>>
          IN  builds' = Append(builds,
                  [document_id |-> Len(builds) + 1, tenant_id |-> tenant_id,
                   ents |-> ents, pc |-> AfterNode(ents, 1), i |-> 1,
                   existing |-> NoId, node_ids |-> <<>>, p |-> 1,
                   nodes_created |-> 0, edges_created |-> 0])
    /\ UNCHANGED <<settings, storeVars, lastCall, polVars, clsVars, fusVars, wf>>

\* _upsert_node, the check query: LIMIT 1 without ORDER BY returns any one
\* of the matching rows
NodeCheck(b) ==
    /\ builds[b].pc = "node_check"
    /\ LET ent == builds[b].ents[builds[b].i]
           existing == NodeMatches(graph_nodes, ent.text, ent.label)
       IN  \E id \in IF existing = <<>> THEN {NoId}
                     ELSE {graph_nodes[existing[m]].id :
                             m \in 1..Len(existing)} :
              builds' = [builds EXCEPT ![b].existing = id,
                                       ![b].pc = "node_write"]
    /\ UNCHANGED <<settings, storeVars, lastCall, polVars, clsVars, fusVars, wf>>

\* _upsert_node, the write the check decided on: UPDATE of the row found or
\* INSERT of a new row
NodeWrite(b) ==
    /\ builds[b].pc = "node_write"
    /\ LET ent == builds[b].ents[builds[b].i]
           id == IF builds[b].existing # NoId THEN builds[b].existing
                 ELSE FreshId(graph_nodes)
       IN  /\ graph_nodes' =
                  IF builds[b].existing # NoId
                  THEN AppendDocument(graph_nodes, builds[b].existing,
                                      builds[b].document_id)
                  ELSE Append(graph_nodes,
                              NewNode(id, ent.text, ent.label,
                                      builds[b].document_id,
                                      builds[b].tenant_id))
           /\ builds' = [builds EXCEPT
                  ![b].node_ids = Append(@, id),
                  ![b].nodes_created = @ + 1,
                  ![b].i = @ + 1,
                  ![b].existing = NoId,
                  ![b].pc = AfterNode(builds[b].ents, builds[b].i + 1)]
    /\ UNCHANGED <<settings, documents, chunks, graph_edges, lastCall,
                   polVars, clsVars, fusVars, wf>>

\* _upsert_edge, the check query
EdgeCheck(b) ==
    /\ builds[b].pc = "edge_check"
    /\ LET pair == WindowPairs(Len(builds[b].ents), 1, 2)[builds[b].p]
           existing == EdgeMatches(graph_edges,
                                   builds[b].node_ids[pair[1]],
                                   builds[b].node_ids[pair[2]], "co_occurs")
       IN  \E id \in IF existing = <<>> THEN {NoId}
                     ELSE {graph_edges[existing[m]].id :
                             m \in 1..Len(existing)} :
              builds' = [builds EXCEPT ![b].existing = id,
                                       ![b].pc = "edge_write"]
    /\ UNCHANGED <<settings, storeVars, lastCall, polVars, clsVars, fusVars, wf>>

\* _upsert_edge, the write the check decided on
EdgeWrite(b) ==
    /\ builds[b].pc = "edge_write"
    /\ LET pair == WindowPairs(Len(builds[b].ents), 1, 2)[builds[b].p]
       IN  /\ graph_edges' =
                  IF builds[b].existing # NoId
                  THEN IncrementWeight(graph_edges, builds[b].existing)
                  ELSE Append(graph_edges,
                              NewEdge(FreshId(graph_edges),
                                      builds[b].node_ids[pair[1]],
                                      builds[b].node_ids[pair[2]],
                                      "co_occurs", builds[b].tenant_id))
           /\ builds' = [builds EXCEPT
                  ![b].edges_created =
                      IF builds[b].existing = NoId THEN @ + 1 ELSE @,
                  ![b].p = @ + 1,
                  ![b].existing = NoId,
                  ![b].pc = AfterEdge(builds[b].ents, builds[b].p + 1)]
    /\ UNCHANGED <<settings, documents, chunks, graph_nodes, lastCall,
                   polVars, clsVars, fusVars, wf>>

InitConc ==
    /\ settings \in Deployments
    /\ documents = <<>>
    /\ chunks = <<>>
    /\ graph_nodes = <<>>
    /\ graph_edges = <<>>
    /\ lastCall = NoCall
    /\ builds = NoBuilds
    /\ InitPolicyVars
    /\ InitClassifyVars
    /\ InitFusionVars
    /\ InitWorkflowVars

NextConc ==
    \/ StartBuild
    \/ \E b \in 1..Len(builds) : NodeCheck(b)
    \/ \E b \in 1..Len(builds) : NodeWrite(b)
    \/ \E b \in 1..Len(builds) : EdgeCheck(b)
    \/ \E b \in 1..Len(builds) : EdgeWrite(b)

SpecConc == InitConc /\ [][NextConc]_vars

(***************************************************************************)
(* C5: under every interleaving of build_from_chunks calls the node table  *)
(* never holds two nodes of one tenant with the same label (compared       *)
(* case-insensitively) and the same entity type.                           *)
(***************************************************************************)
C5_NoDuplicateNodes ==
    \A i, j \in 1..Len(graph_nodes) :
        (/\ i # j
         /\ graph_nodes[i].tenant_id = graph_nodes[j].tenant_id
         /\ LowerText(graph_nodes[i].label) = LowerText(graph_nodes[j].label))
            => graph_nodes[i].entity_type # graph_nodes[j].entity_type

(***************************************************************************)
(* SpecFusion: reciprocal rank fusion applied to drawn modality lists      *)
(***************************************************************************)
\* the chunk ids the drawn lists rank
FusionIds == {"c1", "c2", "c3"}

\* a modality's ranking: chunk ids without repetition (a chunk id is the
\* primary key of the rows a modality query returns), at most MaxLimit long
RankedIds ==
    {ids \in UNION {[1..n -> FusionIds] : n \in 0..Min(MaxLimit, 3)} :
        \A i, j \in 1..Len(ids) : i # j => ids[i] # ids[j]}

\* the SearchResult list a modality returns for a ranking; the modality's
\* own score falls with the rank
ModalityList(ids, mode) ==
    [i \in 1..Len(ids) |->
        [chunk_id |-> ids[i], text |-> <<>>, score |-> 100 - i,
         source_file |-> "", data_class |-> "", search_mode |-> mode]]

InitFusion ==
    /\ fusIn \in [result_lists :
                     {<<ModalityList(kw, "keyword"), ModalityList(vec, "vector"),
                        ModalityList(gr, "graph")>> :
                        kw \in RankedIds, vec \in RankedIds, gr \in RankedIds},
                  k : {0, RRF_K}, limit : Limits]
    /\ fusOut = NoCall
    /\ InitPolicyVars
    /\ InitClassifyVars
    /\ InitAppVars
    /\ InitWorkflowVars

\* the trisearch branch of search: fuse, then fused[:limit]
FuseCall ==
    /\ fusOut.op = "none"
    /\ LET fused == _reciprocal_rank_fusion(fusIn.result_lists, fusIn.k)
       IN  fusOut' = [op |-> "fuse", status |-> 200, fused |-> fused,
                      results |-> Take(fused, fusIn.limit)]
    /\ UNCHANGED <<fusIn, polVars, clsVars, appVars, wf>>

NextFusion == FuseCall

SpecFusion == InitFusion /\ [][NextFusion]_vars

(***************************************************************************)
(* C12: in trisearch mode the score of every returned item is the sum,     *)
(* over the modality lists that contain it, of 1/(k + r) with r its        *)
(* 1-based position in that list; every chunk id appears once; scores do   *)
(* not increase along the results; at most limit items are returned.       *)
(* Scores are in units of 1/RRFScale(k).                                   *)
(***************************************************************************)
C12_FusedScoreIsSumOfReciprocalRanks ==
    fusOut.op = "fuse" =>
        LET lists == fusIn.result_lists
            res == fusOut.results
            Positions(m, id) ==
                {r \in 1..Len(lists[m]) : lists[m][r].chunk_id = id}
            Term(m, id) ==
                IF Positions(m, id) = {} THEN 0
                ELSE RRFScale(fusIn.k)
                        \div (fusIn.k + CHOOSE r \in Positions(m, id) : TRUE)
            ranked == {lists[m][r].chunk_id :
                         <<m, r>> \in {<<m2, r2>> \in (1..3) \X (1..MaxLimit) :
                                          r2 <= Len(lists[m2])}}
        IN  /\ \A i \in 1..Len(res) :
                  res[i].score = Term(1, res[i].chunk_id)
                                 + Term(2, res[i].chunk_id)
                                 + Term(3, res[i].chunk_id)
            /\ \A i, j \in 1..Len(res) :
                  i # j => res[i].chunk_id # res[j].chunk_id
            /\ \A i \in 1..(Len(res) - 1) : res[i].score >= res[i + 1].score
            /\ Len(res) = Min(fusIn.limit, Cardinality(ranked))
            /\ \A i \in 1..Len(res) : res[i].chunk_id \in ranked

\* c2 is second in the lexical list and first in the graph list, k = 60: it
\* comes first with score 1/62 + 1/61
C12_Witness ==
    /\ fusOut.op = "fuse"
    /\ fusIn.k = RRF_K
    /\ fusIn.limit = 1
    /\ fusIn.result_lists = <<ModalityList(<<"c1", "c2">>, "keyword"),
                              ModalityList(<<>>, "vector"),
                              ModalityList(<<"c2", "c3">>, "graph")>>
    /\ Len(fusOut.results) = 1
    /\ fusOut.results[1].chunk_id = "c2"
    /\ fusOut.results[1].score
          = (RRFScale(RRF_K) \div 62) + (RRFScale(RRF_K) \div 61)

(***************************************************************************)
(* C13, as stated: for every k >= 0 an item ranked first in two modality   *)
(* lists has a strictly higher fused score and an earlier position than    *)
(* any item ranked first in only one modality list.                        *)
(***************************************************************************)
C13_FirstInTwoBeatsFirstInOne_Stated ==
    fusOut.op = "fuse" =>
        LET lists == fusIn.result_lists
            fused == fusOut.fused
            FirstIn(id) ==
                {m \in 1..3 : lists[m] # <<>> /\ lists[m][1].chunk_id = id}
        IN  \A x, y \in 1..Len(fused) :
                (/\ Cardinality(FirstIn(fused[x].chunk_id)) >= 2
                 /\ Cardinality(FirstIn(fused[y].chunk_id)) = 1)
                    => (fused[x].score > fused[y].score /\ x < y)

(***************************************************************************)
(* C13, amended: for every k >= 0 an item ranked first in two modality     *)
(* lists has a strictly higher fused score and an earlier position than    *)
(* any item that appears in only one modality list.                        *)
(***************************************************************************)
C13_FirstInTwoBeatsSingleList ==
    fusOut.op = "fuse" =>
        LET lists == fusIn.result_lists
            fused == fusOut.fused
            FirstIn(id) ==
                {m \in 1..3 : lists[m] # <<>> /\ lists[m][1].chunk_id = id}
            In(id) ==
                {m \in 1..3 : \E r \in 1..Len(lists[m]) :
                                 lists[m][r].chunk_id = id}
        IN  \A x, y \in 1..Len(fused) :
                (/\ Cardinality(FirstIn(fused[x].chunk_id)) >= 2
                 /\ Cardinality(In(fused[y].chunk_id)) = 1)
                    => (fused[x].score > fused[y].score /\ x < y)

\* the example of the specification: c1 first in lexical and vector, c2
\* first in graph and nowhere else, k = 60: 2/61 against 1/61
C13_Witness ==
    /\ fusOut.op = "fuse"
    /\ fusIn.k = RRF_K
    /\ fusIn.result_lists = <<ModalityList(<<"c1">>, "keyword"),
                              ModalityList(<<"c1">>, "vector"),
                              ModalityList(<<"c2">>, "graph")>>
    /\ Len(fusOut.fused) = 2
    /\ fusOut.fused[1].chunk_id = "c1"
    /\ fusOut.fused[1].score = 2 * (RRFScale(RRF_K) \div 61)
    /\ fusOut.fused[2].chunk_id = "c2"
    /\ fusOut.fused[2].score = RRFScale(RRF_K) \div 61

(***************************************************************************)
(* C14: when exactly one of the modality lists is non-empty, the fused     *)
(* output holds exactly the items of that list, in the list's order.       *)
(***************************************************************************)
C14_SingleListOrderPreserved ==
    fusOut.op = "fuse" =>
        LET lists == fusIn.result_lists
            fused == fusOut.fused
        IN  \A m \in 1..3 :
                (/\ lists[m] # <<>>
                 /\ \A o \in (1..3) \ {m} : lists[o] = <<>>)
                    => /\ Len(fused) = Len(lists[m])
                       /\ \A i \in 1..Len(fused) :
                             fused[i].chunk_id = lists[m][i].chunk_id

\* only the vector list is non-empty, three items long
C14_Witness ==
    /\ fusOut.op = "fuse"
    /\ fusIn.result_lists = <<ModalityList(<<>>, "keyword"),
                              ModalityList(<<"c2", "c3", "c1">>, "vector"),
                              ModalityList(<<>>, "graph")>>
    /\ Len(fusOut.fused) = 3
    /\ fusOut.fused[1].chunk_id = "c2"
    /\ fusOut.fused[2].chunk_id = "c3"
    /\ fusOut.fused[3].chunk_id = "c1"

====
